---------------------------- MODULE Spec2Model ----------------------------
(***************************************************************************)
(* Front end of the Cflat compiler: the lexer (lex / munch_token /         *)
(* skip_whitespace_and_comments), the token reader of the parse            *)
(* executable (split / tokenize_input) and the recursive-descent parser.   *)
(*                                                                         *)
(* A character is a one-character string, a buffer a sequence of           *)
(* characters.  A pointer into a buffer is its offset 0..Len(b); *p is      *)
(* At(b, p).  A std::string is a sequence of characters too.               *)
(***************************************************************************)
EXTENDS Integers, Sequences, FiniteSets, TLC

VARIABLES
    buf,            \* lex: the source buffer [first, last)
    curr,           \* lex: the cursor `curr`
    tokens,         \* lex: std::vector<Token> tokens
    lex_pc,         \* lex: "loop" (at the while condition) or "done" (returned)
    line,           \* tokenize_input: the line read from the file
    tok_i,          \* tokenize_input: the loop index i
    in_tokens,      \* tokenize_input: std::vector<Token> tokens
    tok_pc,         \* tokenize_input: "loop" or "done"
    m_tokens,       \* Parser::m_tokens
    m_current_pos,  \* Parser::m_current_pos
    program,        \* parse_program: the Program being built
    parse_pc,       \* parse_program: "start", "loop", "done" (returned), "error" (threw a
                    \* std::runtime_error, which main catches) or "terminate" (threw
                    \* another exception, which nothing catches)
    parse_error,    \* the exception thrown, <<>> when none
    exp_ret         \* a call of parse_exp alone: the ExpPtr it returned, <<>> before

vars == <<buf, curr, tokens, lex_pc, line, tok_i, in_tokens, tok_pc,
          m_tokens, m_current_pos, program, parse_pc, parse_error, exp_ret>>

lexVars   == <<buf, curr, tokens, lex_pc>>
tokVars   == <<line, tok_i, in_tokens, tok_pc>>
parseVars == <<m_tokens, m_current_pos, program, parse_pc, parse_error, exp_ret>>

-----------------------------------------------------------------------------
(* Bounds of the model *)

\* longest source buffer over LexChars and over OpChars given to lex
MaxLen == 4
\* longest run of PadChars put before and after a word, an operator or a comment
MaxPad == 1
\* longest token line given to tokenize_input
MaxLine == 6
\* longest function body made of StmtTokens in any order
MaxBody == 4
\* most statements put before a statement form, and most blocks put around it
MaxStmts == 1
MaxNest == 1
\* most top-level definitions of a program made of TopForms
MaxDefs == 2
\* most binary operators in a row of operands given to parse_exp
MaxOps == 2
\* most prefix operators before, and most postfix operators after, a primary
MaxPrefix == 3
MaxPostfix == 2
\* most elements of a list of parameters, locals, fields, arguments or types
MaxElems == 3
\* longest run of whitespace put between two tokens of a lexed buffer
MaxInsert == 1
\* most lexemes of a buffer that is lexed, printed and read back
MaxWords == 3
\* most type constructors around `int' or a struct name in a type given to parse_type
MaxTypeDepth == 2

-----------------------------------------------------------------------------
(* Characters *)


\* std::isalpha in the "C" locale
isalpha(c) ==
    c \in {"a","b","c","d","e","f","g","h","i","j","k","l","m",
           "n","o","p","q","r","s","t","u","v","w","x","y","z",
           "A","B","C","D","E","F","G","H","I","J","K","L","M",
           "N","O","P","Q","R","S","T","U","V","W","X","Y","Z"}

\* std::isdigit
isdigit(c) == c \in {"0","1","2","3","4","5","6","7","8","9"}

\* std::isalnum
isalnum(c) == isalpha(c) \/ isdigit(c)

\* isspace that knows the blank only
isspace_blank_only(c) == c = " "

\* std::isspace in the "C" locale (the vertical tab has no TLA+ literal and
\* is in no input of the model)
isspace(c) == c \in {" ", "\t", "\n", "\f", "\r"}

At(b, p) == b[p + 1]

\* the characters [first, last) of b
Slice(b, first, last) == SubSeq(b, first + 1, last)

-----------------------------------------------------------------------------
(* Lexer: src/unnamed/part_002 *)

\* struct Token of lexer.hpp
Token(type, first, last) == [token_type |-> type, first |-> first, last |-> last]

RECURSIVE substr_eq_from(_, _, _, _, _)
substr_eq_from(b, it, last, pattern, pi) ==
    IF it = last THEN pi = Len(pattern)               \* '\0' == *pattern_it
    ELSE IF pi = Len(pattern) THEN FALSE              \* end of pattern first
    ELSE IF At(b, it) # pattern[pi + 1] THEN FALSE
    ELSE substr_eq_from(b, it + 1, last, pattern, pi + 1)

\* substr_eq that accepts a string the pattern is a prefix of
substr_eq_prefix(b, first, last, pattern) ==
    /\ last - first >= Len(pattern)
    /\ Slice(b, first, first + Len(pattern)) = pattern

substr_eq(b, first, last, pattern) == substr_eq_from(b, first, last, pattern, 0)

starts_two_char_token(b, p) ==
    IF p + 1 >= Len(b) THEN FALSE
    ELSE \/ (At(b, p) = "!" /\ At(b, p + 1) = "=")
         \/ (At(b, p) = "<" /\ At(b, p + 1) = "=")
         \/ (At(b, p) = ">" /\ At(b, p + 1) = "=")
         \/ (At(b, p) = "-" /\ At(b, p + 1) = ">")
         \/ (At(b, p) = "=" /\ At(b, p + 1) = "=")
         \/ (At(b, p) = "/" /\ (At(b, p + 1) = "/" \/ At(b, p + 1) = "*"))

starts_one_char_token(c) ==
    c \in {":", ";", ",", "&", "+", "-", "*", "/", "<", ">", ".", "=",
           "(", ")", "[", "]", "{", "}", "?"}

\* starts_token without the two-character operators and comment openers
starts_token_one_char_only(b, p) ==
    IF p >= Len(b) THEN FALSE
    ELSE IF isalpha(At(b, p)) THEN TRUE
    ELSE IF isdigit(At(b, p)) THEN TRUE
    ELSE IF starts_one_char_token(At(b, p)) THEN TRUE
    ELSE FALSE

starts_token(b, p) ==
    IF p >= Len(b) THEN FALSE
    ELSE IF isalpha(At(b, p)) THEN TRUE
    ELSE IF isdigit(At(b, p)) THEN TRUE
    ELSE IF starts_two_char_token(b, p) THEN TRUE
    ELSE IF starts_one_char_token(At(b, p)) THEN TRUE
    ELSE FALSE

RECURSIVE error_end_loop(_, _)
error_end_loop(b, it) ==
    IF it < Len(b)
    THEN IF starts_token(b, it) THEN it ELSE error_end_loop(b, it + 1)
    ELSE it

\* error_end that stops at once when a two-character operator starts one
\* byte on, the first byte not counted
error_end_empty(b, first) ==
    IF first + 1 < Len(b) /\ starts_token(b, first + 1) /\ ~isalnum(At(b, first + 1))
    THEN first
    ELSE error_end_loop(b, IF first < Len(b) THEN first + 1 ELSE first)

error_end(b, first) ==
    error_end_loop(b, IF first < Len(b) THEN first + 1 ELSE first)

RECURSIVE identifier_end_loop(_, _)
identifier_end_loop(b, it) ==
    IF it = Len(b) THEN Len(b)
    ELSE IF ~(isalnum(At(b, it)) \/ "_" = At(b, it)) THEN it
    ELSE identifier_end_loop(b, it + 1)

identifier_end(b, first) ==
    IF first = Len(b) \/ ~isalpha(At(b, first)) THEN first
    ELSE identifier_end_loop(b, first)

RECURSIVE numeric_end_loop(_, _)
numeric_end_loop(b, it) ==
    IF it = Len(b) THEN Len(b)
    ELSE IF ~isdigit(At(b, it)) THEN it
    ELSE numeric_end_loop(b, it + 1)

numeric_end(b, first) ==
    IF first = Len(b) \/ ~isdigit(At(b, first)) THEN first
    ELSE numeric_end_loop(b, first)

\* the keyword chain of munch_token, in the order of the source
munch_word(b, first) ==
    LET id_end == identifier_end(b, first)
        is(w) == substr_eq(b, first, id_end, w)
    IN  IF is(<<"i","n","t">>) THEN Token("Int", first, id_end)
        ELSE IF is(<<"s","t","r","u","c","t">>) THEN Token("Struct", first, id_end)
        ELSE IF is(<<"n","i","l">>) THEN Token("Nil", first, id_end)
        ELSE IF is(<<"b","r","e","a","k">>) THEN Token("Break", first, id_end)
        ELSE IF is(<<"c","o","n","t","i","n","u","e">>) THEN Token("Continue", first, id_end)
        ELSE IF is(<<"r","e","t","u","r","n">>) THEN Token("Return", first, id_end)
        ELSE IF is(<<"i","f">>) THEN Token("If", first, id_end)
        ELSE IF is(<<"e","l","s","e">>) THEN Token("Else", first, id_end)
        ELSE IF is(<<"w","h","i","l","e">>) THEN Token("While", first, id_end)
        ELSE IF is(<<"n","e","w">>) THEN Token("New", first, id_end)
        ELSE IF is(<<"l","e","t">>) THEN Token("Let", first, id_end)
        ELSE IF is(<<"e","x","t","e","r","n">>) THEN Token("Extern", first, id_end)
        ELSE IF is(<<"f","n">>) THEN Token("Fn", first, id_end)
        ELSE IF is(<<"a","n","d">>) THEN Token("And", first, id_end)
        ELSE IF is(<<"o","r">>) THEN Token("Or", first, id_end)
        ELSE IF is(<<"n","o","t">>) THEN Token("Not", first, id_end)
        ELSE Token("Id", first, id_end)

\* the two-character operators of munch_token; <<>> when none matches
munch_two_char(b, first) ==
    IF Len(b) - first >= 2
    THEN IF substr_eq(b, first, first + 2, <<"!","=">>) THEN <<Token("NotEq", first, first + 2)>>
         ELSE IF substr_eq(b, first, first + 2, <<"<","=">>) THEN <<Token("Lte", first, first + 2)>>
         ELSE IF substr_eq(b, first, first + 2, <<">","=">>) THEN <<Token("Gte", first, first + 2)>>
         ELSE IF substr_eq(b, first, first + 2, <<"-",">">>) THEN <<Token("Arrow", first, first + 2)>>
         ELSE IF substr_eq(b, first, first + 2, <<"=","=">>) THEN <<Token("Equal", first, first + 2)>>
         ELSE <<>>
    ELSE <<>>

\* the switch of munch_token; <<>> when no case matches
munch_one_char(b, first) ==
    LET c == At(b, first)
        one(t) == <<Token(t, first, first + 1)>>
    IN  CASE c = ":" -> one("Colon")
          [] c = ";" -> one("Semicolon")
          [] c = "," -> one("Comma")
          [] c = "&" -> one("Ampersand")
          [] c = "+" -> one("Plus")
          [] c = "-" -> one("Dash")
          [] c = "*" -> one("Star")
          [] c = "/" -> one("Slash")
          [] c = "<" -> one("Lt")
          [] c = ">" -> one("Gt")
          [] c = "." -> one("Dot")
          [] c = "=" -> one("Gets")
          [] c = "(" -> one("OpenParen")
          [] c = ")" -> one("CloseParen")
          [] c = "[" -> one("OpenBracket")
          [] c = "]" -> one("CloseBracket")
          [] c = "{" -> one("OpenBrace")
          [] c = "}" -> one("CloseBrace")
          [] c = "?" -> one("QuestionMark")
          [] OTHER -> <<>>

\* munch_token that tries the one-character switch before the two-character
\* operators
munch_token_one_char_first(b, first) ==
    IF first = Len(b) THEN Token("Error", first, Len(b))
    ELSE IF isalpha(At(b, first)) THEN munch_word(b, first)
    ELSE IF isdigit(At(b, first)) THEN Token("Num", first, numeric_end(b, first))
    ELSE IF munch_one_char(b, first) # <<>> THEN munch_one_char(b, first)[1]
    ELSE IF munch_two_char(b, first) # <<>> THEN munch_two_char(b, first)[1]
    ELSE Token("Error", first, error_end(b, first))

munch_token(b, first) ==
    IF first = Len(b) THEN Token("Error", first, Len(b))
    ELSE IF isalpha(At(b, first)) THEN munch_word(b, first)
    ELSE IF isdigit(At(b, first)) THEN Token("Num", first, numeric_end(b, first))
    ELSE IF munch_two_char(b, first) # <<>> THEN munch_two_char(b, first)[1]
    ELSE IF munch_one_char(b, first) # <<>> THEN munch_one_char(b, first)[1]
    ELSE Token("Error", first, error_end(b, first))

\* 1) whitespace
RECURSIVE skip_whitespace(_, _)
skip_whitespace(b, it) ==
    IF it # Len(b) /\ isspace(At(b, it)) THEN skip_whitespace(b, it + 1) ELSE it

\* eat until newline
RECURSIVE skip_to_newline(_, _)
skip_to_newline(b, it) ==
    IF it # Len(b) /\ At(b, it) # "\n" THEN skip_to_newline(b, it + 1) ELSE it

\* the `//' branch as it was before the end-of-buffer check: a comment that
\* reaches the end of the buffer is skipped without a token
skip_line_comment_silent(b, it) ==
    LET e == skip_to_newline(b, it + 2)
    IN  [next |-> IF e = Len(b) THEN e ELSE e + 1, err |-> <<>>]

\* 2) the body of the `//' branch, `it' at the first slash: the position after
\* the newline, or the Error token of a comment that reaches the end
skip_line_comment(b, it) ==
    LET start_comment == it
        e == skip_to_newline(b, it + 2)
    IN  IF e = Len(b)
        THEN [next |-> Len(b), err |-> <<Token("Error", start_comment, Len(b))>>]
        ELSE [next |-> e + 1, err |-> <<>>]

\* the search for the closing */
RECURSIVE scan_block_comment(_, _)
scan_block_comment(b, it) ==
    IF it + 1 < Len(b)
    THEN IF At(b, it) = "*" /\ At(b, it + 1) = "/"
         THEN [it |-> it + 2, closed |-> TRUE]
         ELSE scan_block_comment(b, it + 1)
    ELSE [it |-> it, closed |-> FALSE]

\* the `/*' branch searching for the closing */ one byte early, so that the
\* star of the opener closes the comment
skip_block_comment_early(b, it) ==
    LET start_comment == it
        s == scan_block_comment(b, it + 1)
    IN  IF ~s.closed
        THEN [next |-> Len(b), err |-> <<Token("Error", start_comment, Len(b))>>]
        ELSE [next |-> s.it, err |-> <<>>]

\* the `/*' branch dropping an unterminated comment without a token
skip_block_comment_silent(b, it) ==
    LET s == scan_block_comment(b, it + 2)
    IN  IF ~s.closed
        THEN [next |-> Len(b), err |-> <<>>]
        ELSE [next |-> s.it, err |-> <<>>]

\* the `/*' branch ending the comment at the last */ of the buffer
skip_block_comment_last_close(b, it) ==
    LET start_comment == it
        closes == {k \in (it + 2)..(Len(b) - 2) : At(b, k) = "*" /\ At(b, k + 1) = "/"}
    IN  IF closes = {}
        THEN [next |-> Len(b), err |-> <<Token("Error", start_comment, Len(b))>>]
        ELSE [next |-> (CHOOSE k \in closes : \A j \in closes : j <= k) + 2, err |-> <<>>]

\* 3) the body of the `/*' branch, `it' at the slash
skip_block_comment(b, it) ==
    LET start_comment == it
        s == scan_block_comment(b, it + 2)
    IN  IF ~s.closed
        THEN [next |-> Len(b), err |-> <<Token("Error", start_comment, Len(b))>>]
        ELSE [next |-> s.it, err |-> <<>>]

\* std::pair<const char*, std::optional<Token>>: err is <<>> for std::nullopt
RECURSIVE skip_whitespace_and_comments(_, _)
skip_whitespace_and_comments(b, first) ==
    LET it == skip_whitespace(b, first)
        last == Len(b)
    IN  IF it + 1 < last /\ At(b, it) = "/" /\ At(b, it + 1) = "/"
        THEN LET r == skip_line_comment(b, it)
             IN  IF r.err # <<>> THEN r ELSE skip_whitespace_and_comments(b, r.next)
        ELSE IF it + 1 < last /\ At(b, it) = "/" /\ At(b, it + 1) = "*"
        THEN LET r == skip_block_comment(b, it)
             IN  IF r.err # <<>> THEN r ELSE skip_whitespace_and_comments(b, r.next)
        ELSE [next |-> it, err |-> <<>>]

\* an iteration of lex that breaks out of the loop after an Error token of
\* munch_token too
lex_iteration_error_breaks(b, c, toks) ==
    IF c = Len(b) THEN [curr |-> c, tokens |-> toks, pc |-> "done"]
    ELSE LET s == skip_whitespace_and_comments(b, c)
         IN  IF s.err # <<>>
             THEN [curr |-> s.next, tokens |-> Append(toks, s.err[1]), pc |-> "done"]
             ELSE IF s.next = Len(b)
             THEN [curr |-> s.next, tokens |-> toks, pc |-> "done"]
             ELSE LET tok == munch_token(b, s.next)
                  IN  [curr |-> IF tok.token_type = "Error" THEN Len(b) ELSE tok.last,
                       tokens |-> Append(toks, tok),
                       pc |-> IF tok.token_type = "Error" THEN "done" ELSE "loop"]

\* one iteration of the while loop of lex, from the state (curr, tokens)
lex_iteration(b, c, toks) ==
    IF c = Len(b) THEN [curr |-> c, tokens |-> toks, pc |-> "done"]
    ELSE LET s == skip_whitespace_and_comments(b, c)
         IN  IF s.err # <<>>
             THEN [curr |-> s.next, tokens |-> Append(toks, s.err[1]), pc |-> "done"]
             ELSE IF s.next = Len(b)
             THEN [curr |-> s.next, tokens |-> toks, pc |-> "done"]
             ELSE LET tok == munch_token(b, s.next)
                  IN  [curr |-> tok.last, tokens |-> Append(toks, tok), pc |-> "loop"]

\* std::vector<Token> lex(first, last), run to its return
RECURSIVE lex_from(_, _, _)
lex_from(b, c, toks) ==
    LET r == lex_iteration(b, c, toks)
    IN  IF r.pc = "done" THEN r.tokens ELSE lex_from(b, r.curr, r.tokens)

lex(b) == lex_from(b, 0, <<>>)

-----------------------------------------------------------------------------
(* The lex executable: main of src/unnamed/part_006 calls lex(first, last) *)

SeqsUpTo(S, n) == UNION {[1..k -> S] : k \in 0..n}

LexChars == {"a", "1", " ", "\n", "/", "*", "@", "="}
OpChars == {"!", "=", "<", ">", "-"}
PadChars == {"y", "1", " ", "\n", "@"}

ReservedWords ==
    { <<"i","n","t">>, <<"s","t","r","u","c","t">>, <<"n","i","l">>,
      <<"b","r","e","a","k">>, <<"c","o","n","t","i","n","u","e">>,
      <<"r","e","t","u","r","n">>, <<"i","f">>, <<"e","l","s","e">>,
      <<"w","h","i","l","e">>, <<"n","e","w">>, <<"l","e","t">>,
      <<"e","x","t","e","r","n">>, <<"f","n">>, <<"a","n","d">>,
      <<"o","r">>, <<"n","o","t">> }

NearWords ==
    { <<"i","f","f","y">>, <<"i","n","t","1">>, <<"i","f","_">>, <<"i">>,
      <<"I","f">>, <<"i","n","t","_","x">>, <<"n","o","t","e">>, <<"o","_","r">> }

CommentForms ==
    { <<"/","*","*","/">>, <<"/","*"," ","*","/">>, <<"/","*","/","*","/">>,
      <<"/","*","*","/","/","*","*","/">>, <<"/","*","a","*","/","a">>,
      <<"/","*">>, <<"/","*","/">>, <<"/","*","*">>, <<"/","*","a">>,
      <<"/","/">>, <<"/","/","a">>, <<"/","/","\n">>, <<"/","/","a","\n","a">>,
      <<"/","/","/","*">>, <<"/","/","\n","/","*">>, <<"/","*","*","/","/","/">> }

OperatorForms ==
    { <<"!","=">>, <<"<","=">>, <<">","=">>, <<"-",">">>, <<"=","=">>,
      <<"=">>, <<"<">>, <<">">>, <<"-">>, <<"!">>, <<"#","!","=">>,
      <<"#"," ","=","=">>, <<"$","#"," ","$","/","/">>, <<"#","/","*">>,
      <<"#","_","a">>, <<"#","\n","1">> }

\* comments inside comments
NestedForms ==
    { <<"/","*"," ","a"," ","/","*"," ","b"," ","*","/"," ","c"," ","*","/">>,
      <<"/","*","/","*","a","*","/","c","*","/">>,
      <<"a","/","*","/","*","*","/","*","/","1">> }

Padded(S) ==
    { pre \o w \o suf : pre \in SeqsUpTo(PadChars, MaxPad),
                        w \in S,
                        suf \in SeqsUpTo(PadChars, MaxPad) }

LexInputs ==
    SeqsUpTo(LexChars, MaxLen) \cup SeqsUpTo(OpChars, MaxLen)
        \cup Padded(ReservedWords \cup NearWords \cup CommentForms \cup OperatorForms)
        \cup NestedForms

\* the parse executable is idle in a run of lex, and the other way round
LexIdle == /\ buf = <<>> /\ curr = 0 /\ tokens = <<>> /\ lex_pc = "done"
TokIdle == /\ line = <<>> /\ tok_i = 0 /\ in_tokens = <<>> /\ tok_pc = "done"
ParseIdle ==
    /\ m_tokens = <<>> /\ m_current_pos = 0
    /\ program = [structs |-> <<>>, externs |-> <<>>, functions |-> <<>>]
    /\ parse_pc = "done" /\ parse_error = <<>> /\ exp_ret = <<>>

Init ==
    /\ buf \in LexInputs
    /\ curr = 0
    /\ tokens = <<>>
    /\ lex_pc = "loop"
    /\ TokIdle /\ ParseIdle

\* while (curr != last) fails: return tokens
LexReturn ==
    /\ lex_pc = "loop" /\ curr = Len(buf)
    /\ lex_pc' = "done"
    /\ UNCHANGED <<buf, curr, tokens, tokVars, parseVars>>

\* the skipper returned an Error token: push it and break
LexCommentError ==
    /\ lex_pc = "loop" /\ curr # Len(buf)
    /\ skip_whitespace_and_comments(buf, curr).err # <<>>
    /\ LET r == lex_iteration(buf, curr, tokens)
       IN  curr' = r.curr /\ tokens' = r.tokens /\ lex_pc' = r.pc
    /\ UNCHANGED <<buf, tokVars, parseVars>>

\* the skipper reached the end of the buffer: break
LexSkipToEnd ==
    /\ lex_pc = "loop" /\ curr # Len(buf)
    /\ skip_whitespace_and_comments(buf, curr).err = <<>>
    /\ skip_whitespace_and_comments(buf, curr).next = Len(buf)
    /\ LET r == lex_iteration(buf, curr, tokens)
       IN  curr' = r.curr /\ tokens' = r.tokens /\ lex_pc' = r.pc
    /\ UNCHANGED <<buf, tokVars, parseVars>>

\* munch one token, push it, continue after it
LexMunch ==
    /\ lex_pc = "loop" /\ curr # Len(buf)
    /\ skip_whitespace_and_comments(buf, curr).err = <<>>
    /\ skip_whitespace_and_comments(buf, curr).next # Len(buf)
    /\ LET r == lex_iteration(buf, curr, tokens)
       IN  curr' = r.curr /\ tokens' = r.tokens /\ lex_pc' = r.pc
    /\ UNCHANGED <<buf, tokVars, parseVars>>

Next == LexReturn \/ LexCommentError \/ LexSkipToEnd \/ LexMunch

Spec == Init /\ [][Next]_vars

\* buffers for the runs of lex that are followed to their end
LiveChars == {"a", "\n", "/", "*"}
LiveInputs ==
    SeqsUpTo(LiveChars, MaxLen) \cup CommentForms \cup OperatorForms \cup NearWords
        \cup NestedForms

InitLive ==
    /\ buf \in LiveInputs
    /\ curr = 0
    /\ tokens = <<>>
    /\ lex_pc = "loop"
    /\ TokIdle /\ ParseIdle

\* lex is sequential code: its loop goes on as long as it can
SpecLexFair == InitLive /\ [][Next]_vars /\ WF_vars(Next)

-----------------------------------------------------------------------------
(* Properties of the lexer *)

Lexeme(t) == Slice(buf, t.first, t.last)

\* where the token before tokens[i] ends (the start of the buffer for i = 1)
PrevEnd(i) == IF i = 1 THEN 0 ELSE tokens[i - 1].last

\* where the last token ends
LastEnd == IF tokens = <<>> THEN 0 ELSE tokens[Len(tokens)].last

\* the least k in lo..hi with P(k), hi + 1 when there is none
FirstAt(lo, hi, P(_)) ==
    IF \E k \in lo..hi : P(k)
    THEN CHOOSE k \in lo..hi : P(k) /\ \A j \in lo..(k - 1) : ~P(j)
    ELSE hi + 1

\* s is made of whitespace, line comments ended by their newline and closed
\* block comments only
RECURSIVE IsSkipped(_)
IsSkipped(s) ==
    LET n == Len(s)
        rest(k) == SubSeq(s, k + 1, n)
        nl(k) == s[k] = "\n"
        close(k) == s[k] = "*" /\ s[k + 1] = "/"
    IN  IF n = 0 THEN TRUE
        ELSE IF isspace(s[1]) THEN IsSkipped(rest(1))
        ELSE IF n >= 2 /\ s[1] = "/" /\ s[2] = "/"
        THEN LET k == FirstAt(3, n, nl) IN k <= n /\ IsSkipped(rest(k))
        ELSE IF n >= 2 /\ s[1] = "/" /\ s[2] = "*"
        THEN LET k == FirstAt(3, n - 1, close) IN k <= n - 1 /\ IsSkipped(rest(k + 1))
        ELSE FALSE

\* the buffer up to the end of tokens[k], rebuilt from the skipped spans and
\* the lexemes in order
RECURSIVE Rebuilt(_)
Rebuilt(k) ==
    IF k = 0 THEN <<>>
    ELSE Rebuilt(k - 1) \o Slice(buf, PrevEnd(k), tokens[k].first) \o Lexeme(tokens[k])

\* C1: the tokens are in source order, their ranges do not overlap and lie in
\* the buffer; every span between them (and, once lex has returned, the span
\* after the last one) is whitespace and complete comments; spans and lexemes
\* concatenated in order rebuild the buffer.
C1_TokensTileBuffer ==
    /\ \A i \in 1..Len(tokens) :
          /\ 0 <= tokens[i].first /\ tokens[i].first <= tokens[i].last
          /\ tokens[i].last <= Len(buf)
          /\ PrevEnd(i) <= tokens[i].first
          /\ IsSkipped(Slice(buf, PrevEnd(i), tokens[i].first))
    /\ LastEnd <= curr /\ curr <= Len(buf)
    /\ Rebuilt(Len(tokens)) = Slice(buf, 0, LastEnd)
    /\ lex_pc = "done" =>
          /\ IsSkipped(Slice(buf, LastEnd, Len(buf)))
          /\ Rebuilt(Len(tokens)) \o Slice(buf, LastEnd, Len(buf)) = buf

C1_Witness ==
    /\ lex_pc = "done" /\ Len(tokens) >= 2
    /\ \E i \in 2..Len(tokens) :
          /\ tokens[i].first >= PrevEnd(i) + 4
          /\ Slice(buf, PrevEnd(i), PrevEnd(i) + 2) = <<"/", "*">>
    /\ LastEnd < Len(buf)

\* a block comment opened at q, reached from p over skipped text, is not closed
OpenBlockAt(p, q) ==
    /\ q + 2 <= Len(buf)
    /\ IsSkipped(Slice(buf, p, q))
    /\ Slice(buf, q, q + 2) = <<"/", "*">>
    /\ \A k \in (q + 2)..(Len(buf) - 2) : Slice(buf, k, k + 2) # <<"*", "/">>

\* C3: when the buffer ends inside a block comment, lex pushes one Error token
\* from the opener to the end of the buffer after the tokens it already has,
\* and returns; the tokens it returned never change.
C3_UnterminatedBlock ==
    [][ /\ (lex_pc = "loop" /\ \E q \in curr..Len(buf) : OpenBlockAt(curr, q)) =>
            /\ \E q \in curr..Len(buf) :
                  /\ OpenBlockAt(curr, q)
                  /\ tokens' = Append(tokens, Token("Error", q, Len(buf)))
            /\ lex_pc' = "done"
        /\ lex_pc = "done" => tokens' = tokens ]_vars

C3_Witness ==
    /\ lex_pc = "done" /\ Len(tokens) >= 2
    /\ tokens[Len(tokens)].token_type = "Error"
    /\ Slice(buf, tokens[Len(tokens)].first, tokens[Len(tokens)].first + 2) = <<"/", "*">>
    /\ tokens[Len(tokens)].last = Len(buf)
    /\ tokens[Len(tokens)].first > tokens[Len(tokens) - 1].last

\* a line comment opened at q, reached from p over skipped text
LineCommentAt(p, q) ==
    /\ q + 2 <= Len(buf)
    /\ IsSkipped(Slice(buf, p, q))
    /\ Slice(buf, q, q + 2) = <<"/", "/">>

IsNewline(k) == buf[k] = "\n"

\* the offset of the newline that ends the line comment opened at q, Len(buf)
\* when there is none
NewlineAfter(q) == FirstAt(q + 3, Len(buf), IsNewline) - 1

\* C4: a line comment that reaches the end of the buffer makes lex push one
\* Error token from the // to the end and return; a line comment ended by a
\* newline yields no token: whatever lex pushes next starts after the newline.
C4_LineComment ==
    [][ lex_pc = "loop" =>
          \A q \in curr..Len(buf) :
             LineCommentAt(curr, q) =>
                IF NewlineAfter(q) = Len(buf)
                THEN /\ tokens' = Append(tokens, Token("Error", q, Len(buf)))
                     /\ lex_pc' = "done"
                ELSE /\ curr' > NewlineAfter(q)
                     /\ SubSeq(tokens', 1, Len(tokens)) = tokens
                     /\ \A i \in (Len(tokens) + 1)..Len(tokens') :
                           tokens'[i].first > NewlineAfter(q) ]_vars

C4_Witness ==
    /\ lex_pc = "done" /\ Len(tokens) >= 2
    /\ tokens[Len(tokens)].token_type = "Error"
    /\ Slice(buf, tokens[Len(tokens)].first, tokens[Len(tokens)].first + 2) = <<"/", "/">>
    /\ tokens[Len(tokens)].last = Len(buf)
    /\ tokens[Len(tokens)].last > tokens[Len(tokens)].first + 2

\* the kind of the two-byte operator two, "" when it is none
TwoByteKind(two) ==
    CASE two = <<"!", "=">> -> "NotEq"
      [] two = <<"<", "=">> -> "Lte"
      [] two = <<">", "=">> -> "Gte"
      [] two = <<"-", ">">> -> "Arrow"
      [] two = <<"=", "=">> -> "Equal"
      [] OTHER -> ""

\* C5: a token that starts where a two-byte operator stands is that operator,
\* two bytes long; `=', `<', `>', `-' are Gets, Lt, Gt, Dash only where no
\* two-byte operator stands.
C5_MaximalMunchOperators ==
    \A i \in 1..Len(tokens) :
        LET t == tokens[i]
            two == Slice(buf, t.first, t.first + 2)
            c == At(buf, t.first)
        IN  IF t.first + 2 <= Len(buf) /\ TwoByteKind(two) # ""
            THEN t = Token(TwoByteKind(two), t.first, t.first + 2)
            ELSE /\ c = "=" => t = Token("Gets", t.first, t.first + 1)
                 /\ c = "<" => t = Token("Lt", t.first, t.first + 1)
                 /\ c = ">" => t = Token("Gt", t.first, t.first + 1)
                 /\ c = "-" => t = Token("Dash", t.first, t.first + 1)

C5_Witness ==
    /\ lex_pc = "done" /\ buf = <<"<", "=", "=", "-">>
    /\ Len(tokens) = 3
    /\ tokens[1].token_type = "Lte" /\ tokens[2].token_type = "Gets"
    /\ tokens[3].token_type = "Dash"

\* the keyword kind of the word w, "Id" when it is no reserved word
WordKind(w) ==
    CASE w = <<"i","n","t">> -> "Int"
      [] w = <<"s","t","r","u","c","t">> -> "Struct"
      [] w = <<"n","i","l">> -> "Nil"
      [] w = <<"b","r","e","a","k">> -> "Break"
      [] w = <<"c","o","n","t","i","n","u","e">> -> "Continue"
      [] w = <<"r","e","t","u","r","n">> -> "Return"
      [] w = <<"i","f">> -> "If"
      [] w = <<"e","l","s","e">> -> "Else"
      [] w = <<"w","h","i","l","e">> -> "While"
      [] w = <<"n","e","w">> -> "New"
      [] w = <<"l","e","t">> -> "Let"
      [] w = <<"e","x","t","e","r","n">> -> "Extern"
      [] w = <<"f","n">> -> "Fn"
      [] w = <<"a","n","d">> -> "And"
      [] w = <<"o","r">> -> "Or"
      [] w = <<"n","o","t">> -> "Not"
      [] OTHER -> "Id"

KeywordKinds ==
    {"Int", "Struct", "Nil", "Break", "Continue", "Return", "If", "Else",
     "While", "New", "Let", "Extern", "Fn", "And", "Or", "Not"}

NotWordChar(k) == ~(isalnum(buf[k]) \/ buf[k] = "_")

\* C6: a token that starts at a letter covers the whole run of letters,
\* digits and underscores from there, and is the keyword when the run equals
\* a reserved word and an Id otherwise; no other token is a keyword or an Id.
C6_KeywordOrId ==
    \A i \in 1..Len(tokens) :
        LET t == tokens[i]
        IN  IF isalpha(At(buf, t.first))
            THEN /\ t.last = FirstAt(t.first + 1, Len(buf), NotWordChar) - 1
                 /\ t.token_type = WordKind(Lexeme(t))
            ELSE t.token_type \notin KeywordKinds \cup {"Id"}

C6_Witness ==
    /\ lex_pc = "done" /\ Len(tokens) = 2
    /\ tokens[1].token_type = "If" /\ tokens[2].token_type = "Error"

OneByteOperators ==
    {":", ";", ",", "&", "+", "-", "*", "/", "<", ">", ".", "=",
     "(", ")", "[", "]", "{", "}", "?"}

\* a letter, a digit, a one-byte operator, a two-byte operator or a comment
\* opener begins at offset q
CanBegin(q) ==
    /\ q < Len(buf)
    /\ \/ isalpha(At(buf, q))
       \/ isdigit(At(buf, q))
       \/ At(buf, q) \in OneByteOperators
       \/ /\ q + 2 <= Len(buf)
          /\ \/ TwoByteKind(Slice(buf, q, q + 2)) # ""
             \/ Slice(buf, q, q + 2) \in {<<"/", "/">>, <<"/", "*">>}

CanBeginAt(k) == CanBegin(k - 1)

Shifted(toks, d) ==
    [i \in 1..Len(toks) |->
        Token(toks[i].token_type, toks[i].first + d, toks[i].last + d)]

\* C8: once lex has returned, the tokens after every Error token are the
\* tokens of the rest of the buffer lexed on its own, and nothing but
\* whitespace and complete comments follows the last token.
C8_ErrorsNotFatal ==
    lex_pc = "done" =>
        /\ \A i \in 1..Len(tokens) :
              tokens[i].token_type = "Error" =>
                 SubSeq(tokens, i + 1, Len(tokens))
                    = Shifted(lex(Slice(buf, tokens[i].last, Len(buf))), tokens[i].last)
        /\ IsSkipped(Slice(buf, LastEnd, Len(buf)))

C8_Witness ==
    /\ lex_pc = "done" /\ Len(tokens) >= 3
    /\ tokens[1].token_type = "Error" /\ ~CanBegin(tokens[1].first)
    /\ tokens[2].token_type # "Error"
    /\ tokens[3].token_type = "Error" /\ ~CanBegin(tokens[3].first)

-----------------------------------------------------------------------------
(* Token reader of the parse executable: src/unnamed/part_000 *)

\* struct Token of parser.hpp
PToken(type, value, index) == [type |-> type, value |-> value, index |-> index]

\* split(s, delimiter): std::getline on the stream of s until it fails; a
\* getline that extracts nothing at the end of the stream fails, so the text
\* after the last delimiter is a part only when it is not empty
RECURSIVE split_from(_, _, _, _, _)
split_from(s, delimiter, k, part, parts) ==
    IF k > Len(s) THEN (IF part = <<>> THEN parts ELSE Append(parts, part))
    ELSE IF s[k] = delimiter THEN split_from(s, delimiter, k + 1, <<>>, Append(parts, part))
    ELSE split_from(s, delimiter, k + 1, Append(part, s[k]), parts)

split(s, delimiter) == split_from(s, delimiter, 1, <<>>, <<>>)

\* std::string::find(c): the offset of the first c, -1 for npos
find(str, c) ==
    IF \E k \in 1..Len(str) : str[k] = c
    THEN (CHOOSE k \in 1..Len(str) : str[k] = c /\ \A j \in 1..(k - 1) : str[j] # c) - 1
    ELSE -1

\* std::string::substr(pos, count) for pos <= size; a count that is negative
\* as an integer is a huge size_t and takes the rest of the string
substr(str, pos, count) ==
    IF count < 0 \/ pos + count > Len(str)
    THEN SubSeq(str, pos + 1, Len(str))
    ELSE SubSeq(str, pos + 1, pos + count)

\* the body of the for loop of tokenize_input for string_tokens[i] (i from 0):
\* the tokens after it
tokenize_part(string_tokens, i, toks) ==
    LET str_tok == string_tokens[i + 1]
        open_paren == find(str_tok, "(")
    IN  IF str_tok = <<>> THEN toks
        ELSE IF open_paren # -1
        THEN Append(toks, PToken(substr(str_tok, 0, open_paren),
                                 substr(str_tok, open_paren + 1,
                                        Len(str_tok) - open_paren - 2),
                                 i))
        ELSE Append(toks, PToken(str_tok, <<>>, i))

LineChars == {" ", "(", ")", "x"}

InitTokenize ==
    /\ line \in SeqsUpTo(LineChars, MaxLine)
    /\ tok_i = 0
    /\ in_tokens = <<>>
    /\ tok_pc = "loop"
    /\ LexIdle /\ ParseIdle

\* if (str_tok.empty()) continue;
TokenizeEmptyPart ==
    /\ tok_pc = "loop" /\ tok_i < Len(split(line, " "))
    /\ split(line, " ")[tok_i + 1] = <<>>
    /\ in_tokens' = tokenize_part(split(line, " "), tok_i, in_tokens)
    /\ tok_i' = tok_i + 1
    /\ UNCHANGED <<line, tok_pc, lexVars, parseVars>>

\* a part with a parenthesis: a token with a value
TokenizeValuePart ==
    /\ tok_pc = "loop" /\ tok_i < Len(split(line, " "))
    /\ split(line, " ")[tok_i + 1] # <<>>
    /\ find(split(line, " ")[tok_i + 1], "(") # -1
    /\ in_tokens' = tokenize_part(split(line, " "), tok_i, in_tokens)
    /\ tok_i' = tok_i + 1
    /\ UNCHANGED <<line, tok_pc, lexVars, parseVars>>

\* a part without a parenthesis: a bare token
TokenizeBarePart ==
    /\ tok_pc = "loop" /\ tok_i < Len(split(line, " "))
    /\ split(line, " ")[tok_i + 1] # <<>>
    /\ find(split(line, " ")[tok_i + 1], "(") = -1
    /\ in_tokens' = tokenize_part(split(line, " "), tok_i, in_tokens)
    /\ tok_i' = tok_i + 1
    /\ UNCHANGED <<line, tok_pc, lexVars, parseVars>>

\* i == string_tokens.size(): return tokens
TokenizeReturn ==
    /\ tok_pc = "loop" /\ tok_i = Len(split(line, " "))
    /\ tok_pc' = "done"
    /\ UNCHANGED <<line, tok_i, in_tokens, lexVars, parseVars>>

NextTokenize ==
    TokenizeEmptyPart \/ TokenizeValuePart \/ TokenizeBarePart \/ TokenizeReturn

SpecTokenize == InitTokenize /\ [][NextTokenize]_vars

\* C2: the k-th token of the sequence tokenize_input builds, counting from 0,
\* carries index k.
C2_IndexIsOrdinal ==
    \A k \in 1..Len(in_tokens) : in_tokens[k].index = k - 1

-----------------------------------------------------------------------------
(* Parser: src/unnamed/part_005.  A parsing method is an operator of the   *)
(* token vector t and the cursor p (m_current_pos); it yields the cursor   *)
(* after it and the node it returns, or the exception it throws with the   *)
(* cursor where it was thrown.                                             *)

NoNode == [kind |-> "none"]

\* a method that returned node n with the cursor at p
Ok(p, n) == [pos |-> p, err |-> <<>>, node |-> n]

\* a method left by an exception e with the cursor at p
Thrown(p, e) == [pos |-> p, err |-> <<e>>, node |-> NoNode]

Failed(r) == r.err # <<>>

\* the text after "parse error: " of the five messages
UnexpectedToken(i) ==
    [msg |-> "unexpected token at token", lexeme |-> <<>>, at |-> i]
EndOfStream ==
    [msg |-> "unexpected end of token stream", lexeme |-> <<>>, at |-> -1]
NotAPlace(i) ==
    [msg |-> "left-hand side of assignment must be a place, starting at token",
     lexeme |-> <<>>, at |-> i]
NotACall(i) ==
    [msg |-> "standalone expressions must be function calls, starting at token",
     lexeme |-> <<>>, at |-> i]
InvalidI64(lexeme, i) ==
    [msg |-> "invalid i64 number", lexeme |-> lexeme, at |-> i]

\* Parser::error: throw std::runtime_error("parse error: " + message)
error(p, message) ==
    Thrown(p, [exception |-> "std::runtime_error", prefix |-> "parse error: ",
               msg |-> message.msg, lexeme |-> message.lexeme, at |-> message.at])

is_at_end(t, p) == p >= Len(t)

\* Parser::check
check(t, p, type) == IF is_at_end(t, p) THEN FALSE ELSE t[p + 1].type = type

\* Parser::check_any
check_any(t, p, types) == IF is_at_end(t, p) THEN FALSE ELSE t[p + 1].type \in types

\* Parser::peek: the token at the cursor, or the end-of-stream error
peek(t, p) == IF is_at_end(t, p) THEN error(p, EndOfStream) ELSE Ok(p, t[p + 1])

\* Parser::advance after a successful check: the cursor moves by one and the
\* token passed is returned
advance(t, p) == IF ~is_at_end(t, p) THEN Ok(p + 1, t[p + 1]) ELSE Ok(p, t[p])

\* consume(expected_type, "unexpected token at token " + to_string(peek().index)):
\* the message is built first, so peek() throws at the end of the stream
\* consume that takes an Error token for the expected one
consume_accepts_error(t, p, expected_type) ==
    IF is_at_end(t, p) THEN error(p, EndOfStream)
    ELSE IF t[p + 1].type \notin {expected_type, "Error"}
    THEN error(p, UnexpectedToken(t[p + 1].index))
    ELSE advance(t, p)

\* consume that reports the end of the stream as an unexpected token
consume_end_as_unexpected(t, p, expected_type) ==
    IF is_at_end(t, p) THEN error(p, UnexpectedToken(p))
    ELSE IF t[p + 1].type # expected_type THEN error(p, UnexpectedToken(t[p + 1].index))
    ELSE advance(t, p)

consume(t, p, expected_type) ==
    IF is_at_end(t, p) THEN error(p, EndOfStream)
    ELSE IF t[p + 1].type # expected_type THEN error(p, UnexpectedToken(t[p + 1].index))
    ELSE advance(t, p)

(* std::stoll on a token value *)

\* the least k >= lo with str[k] outside the characters S, Len(str) + 1 when
\* there is none
FirstNotIn(str, lo, S) ==
    IF \E k \in lo..Len(str) : str[k] \notin S
    THEN CHOOSE k \in lo..Len(str) :
            str[k] \notin S /\ \A j \in lo..(k - 1) : str[j] \in S
    ELSE Len(str) + 1

StripZeros(d) ==
    LET k == FirstNotIn(d, 1, {"0"})
    IN  IF k > Len(d) THEN <<"0">> ELSE SubSeq(d, k, Len(d))

DigitValue(c) ==
    CASE c = "0" -> 0 [] c = "1" -> 1 [] c = "2" -> 2 [] c = "3" -> 3 [] c = "4" -> 4
      [] c = "5" -> 5 [] c = "6" -> 6 [] c = "7" -> 7 [] c = "8" -> 8 [] c = "9" -> 9

\* a < b for digit strings of the same length
RECURSIVE DigitsLess(_, _)
DigitsLess(a, b) ==
    IF a = <<>> THEN FALSE
    ELSE IF DigitValue(a[1]) # DigitValue(b[1]) THEN DigitValue(a[1]) < DigitValue(b[1])
    ELSE DigitsLess(Tail(a), Tail(b))

\* LLONG_MAX = 9223372036854775807 and -LLONG_MIN = 9223372036854775808
LLongMaxDigits ==
    <<"9","2","2","3","3","7","2","0","3","6","8","5","4","7","7","5","8","0","7">>
LLongMinDigits ==
    <<"9","2","2","3","3","7","2","0","3","6","8","5","4","7","7","5","8","0","8">>

\* magnitude d (no leading zeros) is above the magnitude lim
Exceeds(d, lim) ==
    \/ Len(d) > Len(lim)
    \/ Len(d) = Len(lim) /\ DigitsLess(lim, d)

\* std::stoll with -LLONG_MIN as the limit of both signs
stoll_limit_min(str) ==
    LET b == FirstNotIn(str, 1, {" ", "\t", "\n", "\f", "\r"})
        signed == b <= Len(str) /\ str[b] \in {"+", "-"}
        neg == signed /\ str[b] = "-"
        d0 == IF signed THEN b + 1 ELSE b
        d1 == FirstNotIn(str, d0, {"0","1","2","3","4","5","6","7","8","9"})
        digits == StripZeros(SubSeq(str, d0, d1 - 1))
    IN  IF d1 = d0 THEN [status |-> "invalid_argument", neg |-> FALSE, digits |-> <<>>]
        ELSE IF Exceeds(digits, LLongMinDigits)
        THEN [status |-> "out_of_range", neg |-> neg, digits |-> digits]
        ELSE [status |-> "ok", neg |-> neg /\ digits # <<"0">>, digits |-> digits]

\* std::stoll(str): leading whitespace, an optional sign, then the longest run
\* of digits; the value is its sign and its digits without leading zeros
stoll(str) ==
    LET b == FirstNotIn(str, 1, {" ", "\t", "\n", "\f", "\r"})      \* std::isspace
        signed == b <= Len(str) /\ str[b] \in {"+", "-"}
        neg == signed /\ str[b] = "-"
        d0 == IF signed THEN b + 1 ELSE b
        d1 == FirstNotIn(str, d0, {"0","1","2","3","4","5","6","7","8","9"})
        digits == StripZeros(SubSeq(str, d0, d1 - 1))
    IN  IF d1 = d0 THEN [status |-> "invalid_argument", neg |-> FALSE, digits |-> <<>>]
        ELSE IF Exceeds(digits, IF neg THEN LLongMinDigits ELSE LLongMaxDigits)
        THEN [status |-> "out_of_range", neg |-> neg, digits |-> digits]
        ELSE [status |-> "ok", neg |-> neg /\ digits # <<"0">>, digits |-> digits]

(* AST nodes: src/unnamed/part_004 *)

IntType == [kind |-> "IntType"]
StructType(n) == [kind |-> "StructType", name |-> n]
FnType(ptrs, rt) == [kind |-> "FnType", param_types |-> ptrs, return_type |-> rt]
PtrType(bt) == [kind |-> "PtrType", base_type |-> bt]
ArrayType(et) == [kind |-> "ArrayType", element_type |-> et]
Decl(n, ty) == [kind |-> "Decl", name |-> n, type |-> ty]
Id(n) == [kind |-> "Id", name |-> n]
Deref(e) == [kind |-> "Deref", exp |-> e]
ArrayAccess(arr, idx) == [kind |-> "ArrayAccess", array |-> arr, index |-> idx]
FieldAccess(pt, f) == [kind |-> "FieldAccess", ptr |-> pt, field |-> f]
Val(pl) == [kind |-> "Val", place |-> pl]
Num(v) == [kind |-> "Num", value |-> v]
NilExp == [kind |-> "NilExp"]
Select(g, tt, ff) == [kind |-> "Select", guard |-> g, tt |-> tt, ff |-> ff]
UnOp(o, e) == [kind |-> "UnOp", op |-> o, exp |-> e]
BinOp(o, l, r) == [kind |-> "BinOp", op |-> o, left |-> l, right |-> r]
NewSingle(ty) == [kind |-> "NewSingle", type |-> ty]
NewArray(ty, sz) == [kind |-> "NewArray", type |-> ty, size |-> sz]
FunCall(c, a) == [kind |-> "FunCall", callee |-> c, args |-> a]
CallExp(fc) == [kind |-> "CallExp", fun_call |-> fc]
Assign(pl, e) == [kind |-> "Assign", place |-> pl, exp |-> e]
CallStmt(fc) == [kind |-> "CallStmt", fun_call |-> fc]
If(g, tt, ff) == [kind |-> "If", guard |-> g, tt |-> tt, ff |-> ff]
While(g, b) == [kind |-> "While", guard |-> g, body |-> b]
Break == [kind |-> "Break"]
Continue == [kind |-> "Continue"]
Return(e) == [kind |-> "Return", exp |-> e]
FunctionDef(n, prms, rt, lcls, st) ==
    [kind |-> "FunctionDef", name |-> n, params |-> prms, rettype |-> rt,
     locals |-> lcls, stmts |-> st]
StructDef(n, f) == [kind |-> "StructDef", name |-> n, fields |-> f]
Program(s, e, f) == [structs |-> s, externs |-> e, functions |-> f]

\* the one element of a set.  Only({ F(x) : x \in {e} }) is F(e) with e
\* evaluated once, the way a method keeps the result of a call in a local; in
\*     Only({ IF Failed(x) THEN x ELSE rest : x \in {e} })
\* an exception thrown by the call e leaves the method, and otherwise the
\* method goes on with `rest'.  Nested, the calls are made from the outermost
\* (written last) to the innermost.
Only(S) == CHOOSE x \in S : TRUE

RECURSIVE parse_type(_, _)
RECURSIVE parse_funtype(_, _)
RECURSIVE parse_type_list(_, _, _)
RECURSIVE parse_exp(_, _)
RECURSIVE parse_exp_loop(_, _)
RECURSIVE parse_exp1(_, _)
RECURSIVE parse_exp2(_, _)
RECURSIVE parse_exp2_loop(_, _)
RECURSIVE parse_exp3(_, _)
RECURSIVE parse_exp3_loop(_, _)
RECURSIVE parse_exp4(_, _)
RECURSIVE parse_exp4_loop(_, _)
RECURSIVE parse_exp5(_, _)
RECURSIVE parse_exp6(_, _)
RECURSIVE parse_exp6_loop(_, _)
RECURSIVE parse_exp7(_, _)
RECURSIVE parse_arg_list(_, _, _)
RECURSIVE parse_stmt(_, _)
RECURSIVE parse_stmt_list(_, _, _)
RECURSIVE parse_block(_, _)
RECURSIVE parse_if_stmt(_, _)
RECURSIVE parse_while_stmt(_, _)

\* do { param_types.push_back(parse_type()); } while (check("Comma") && (advance(), true));
parse_type_list(t, p, acc) ==
    Only({ IF Failed(ty) THEN ty ELSE
        IF check(t, ty.pos, "Comma")
        THEN parse_type_list(t, advance(t, ty.pos).pos, Append(acc, ty.node))
        ELSE Ok(ty.pos, Append(acc, ty.node))
      : ty \in {parse_type(t, p)} })

parse_funtype(t, p) ==
    LET open == consume(t, p, "OpenParen") IN
    IF Failed(open) THEN open ELSE
    Only({ IF Failed(param_types) THEN param_types ELSE
    LET close == consume(t, param_types.pos, "CloseParen") IN
    IF Failed(close) THEN close ELSE
    LET arrow == consume(t, close.pos, "Arrow") IN
    IF Failed(arrow) THEN arrow ELSE
    Only({ IF Failed(return_type) THEN return_type ELSE
        Ok(return_type.pos, FnType(param_types.node, return_type.node))
      : return_type \in {parse_type(t, arrow.pos)} })
      : param_types \in {IF ~check(t, open.pos, "CloseParen") THEN parse_type_list(t, open.pos, <<>>)
                         ELSE Ok(open.pos, <<>>)} })

\* parse_type that takes `nil' for a type
parse_type_accepts_nil(t, p) ==
    IF check(t, p, "Nil") THEN Ok(advance(t, p).pos, [kind |-> "NilType"])
    ELSE IF check(t, p, "Int") THEN Ok(advance(t, p).pos, IntType)
    ELSE IF check(t, p, "Id")
    THEN Ok(advance(t, p).pos, StructType(advance(t, p).node.value))
    ELSE IF check(t, p, "Ampersand")
    THEN Only({ IF Failed(inner_type) THEN inner_type ELSE
             Ok(inner_type.pos, PtrType(inner_type.node))
           : inner_type \in {parse_type(t, advance(t, p).pos)} })
    ELSE IF check(t, p, "OpenBracket")
    THEN Only({ IF Failed(inner_type) THEN inner_type ELSE
         LET close == consume(t, inner_type.pos, "CloseBracket") IN
         IF Failed(close) THEN close ELSE
             Ok(close.pos, ArrayType(inner_type.node))
           : inner_type \in {parse_type(t, advance(t, p).pos)} })
    ELSE parse_funtype(t, p)

parse_type(t, p) ==
    IF check(t, p, "Int") THEN Ok(advance(t, p).pos, IntType)
    ELSE IF check(t, p, "Id")
    THEN Ok(advance(t, p).pos, StructType(advance(t, p).node.value))
    ELSE IF check(t, p, "Ampersand")
    THEN Only({ IF Failed(inner_type) THEN inner_type ELSE
             Ok(inner_type.pos, PtrType(inner_type.node))
           : inner_type \in {parse_type(t, advance(t, p).pos)} })
    ELSE IF check(t, p, "OpenBracket")
    THEN Only({ IF Failed(inner_type) THEN inner_type ELSE
         LET close == consume(t, inner_type.pos, "CloseBracket") IN
         IF Failed(close) THEN close ELSE
             Ok(close.pos, ArrayType(inner_type.node))
           : inner_type \in {parse_type(t, advance(t, p).pos)} })
    ELSE parse_funtype(t, p)

\* decl ::= id `:` type
parse_decl(t, p) ==
    LET name == consume(t, p, "Id") IN
    IF Failed(name) THEN name ELSE
    LET colon == consume(t, name.pos, "Colon") IN
    IF Failed(colon) THEN colon ELSE
    Only({ IF Failed(type) THEN type ELSE
        Ok(type.pos, Decl(name.node.value, type.node))
      : type \in {parse_type(t, colon.pos)} })

\* parse_decl_list that lets a list end with a comma
RECURSIVE parse_decl_list_trailing_comma(_, _, _)
parse_decl_list_trailing_comma(t, p, acc) ==
    Only({ IF Failed(d) THEN d ELSE
        IF check(t, d.pos, "Comma")
        THEN (IF check(t, d.pos + 1, "Id")
              THEN parse_decl_list_trailing_comma(t, advance(t, d.pos).pos,
                                                  Append(acc, d.node))
              ELSE Ok(advance(t, d.pos).pos, Append(acc, d.node)))
        ELSE Ok(d.pos, Append(acc, d.node))
      : d \in {parse_decl(t, p)} })

\* do { ....push_back(parse_decl()); } while (check("Comma") && (advance(), true));
RECURSIVE parse_decl_list(_, _, _)
parse_decl_list(t, p, acc) ==
    Only({ IF Failed(d) THEN d ELSE
        IF check(t, d.pos, "Comma")
        THEN parse_decl_list(t, advance(t, d.pos).pos, Append(acc, d.node))
        ELSE Ok(d.pos, Append(acc, d.node))
      : d \in {parse_decl(t, p)} })

\* parse_exp_loop with the false arm parsed by parse_exp
parse_exp_loop_false_arm_exp(t, left) ==
    IF Failed(left) THEN left
    ELSE IF check(t, left.pos, "QuestionMark")
    THEN Only({ IF Failed(true_exp) THEN true_exp ELSE
         LET colon == consume(t, true_exp.pos, "Colon") IN
         IF Failed(colon) THEN colon ELSE
         Only({ IF Failed(false_exp) THEN false_exp ELSE
             parse_exp_loop(t, Ok(false_exp.pos,
                                  Select(left.node, true_exp.node, false_exp.node)))
           : false_exp \in {parse_exp(t, colon.pos)} })
           : true_exp \in {parse_exp(t, advance(t, left.pos).pos)} })
    ELSE left

\* parse_exp_loop with `if' in the place of `while': one selection, no more
parse_exp_loop_once(t, left) ==
    IF Failed(left) THEN left
    ELSE IF check(t, left.pos, "QuestionMark")
    THEN Only({ IF Failed(true_exp) THEN true_exp ELSE
         LET colon == consume(t, true_exp.pos, "Colon") IN
         IF Failed(colon) THEN colon ELSE
         Only({ IF Failed(false_exp) THEN false_exp ELSE
             Ok(false_exp.pos, Select(left.node, true_exp.node, false_exp.node))
           : false_exp \in {parse_exp1(t, colon.pos)} })
           : true_exp \in {parse_exp(t, advance(t, left.pos).pos)} })
    ELSE left

\* parse_exp_loop that takes a `?' only when a `:' comes somewhere after it
parse_exp_loop_looks_ahead(t, left) ==
    IF Failed(left) THEN left
    ELSE IF /\ check(t, left.pos, "QuestionMark")
            /\ \E k \in (left.pos + 2)..Len(t) : t[k].type = "Colon"
    THEN Only({ IF Failed(true_exp) THEN true_exp ELSE
         LET colon == consume(t, true_exp.pos, "Colon") IN
         IF Failed(colon) THEN colon ELSE
         Only({ IF Failed(false_exp) THEN false_exp ELSE
             parse_exp_loop(t, Ok(false_exp.pos,
                                  Select(left.node, true_exp.node, false_exp.node)))
           : false_exp \in {parse_exp1(t, colon.pos)} })
           : true_exp \in {parse_exp(t, advance(t, left.pos).pos)} })
    ELSE left

\* the while loop of parse_exp, `left' parsed so far; an exception thrown by
\* the call that parsed `left' leaves parse_exp
parse_exp_loop(t, left) ==
    IF Failed(left) THEN left
    ELSE IF check(t, left.pos, "QuestionMark")
    THEN Only({ IF Failed(true_exp) THEN true_exp ELSE
         LET colon == consume(t, true_exp.pos, "Colon") IN
         IF Failed(colon) THEN colon ELSE
         Only({ IF Failed(false_exp) THEN false_exp ELSE
             parse_exp_loop(t, Ok(false_exp.pos,
                                  Select(left.node, true_exp.node, false_exp.node)))
           : false_exp \in {parse_exp1(t, colon.pos)} })
           : true_exp \in {parse_exp(t, advance(t, left.pos).pos)} })
    ELSE left

\* exp ::= exp1 (`?` exp `:` exp1)*
parse_exp(t, p) == parse_exp_loop(t, parse_exp1(t, p))

\* parse_exp1 with the right operand parsed by parse_exp2
parse_exp1_right_exp2(t, p) ==
    Only({ IF Failed(left) THEN left ELSE
        IF check_any(t, left.pos, {"And", "Or"})
        THEN (LET op_token == advance(t, left.pos) IN
             Only({ IF Failed(right) THEN right ELSE
                 Ok(right.pos,
                    BinOp(IF op_token.node.type = "And" THEN "And" ELSE "Or",
                          left.node, right.node))
               : right \in {parse_exp2(t, op_token.pos)} }))
        ELSE left
      : left \in {parse_exp2(t, p)} })

\* exp1 ::= exp2 ([`and`,`or`] exp2)*, right-associative
parse_exp1(t, p) ==
    Only({ IF Failed(left) THEN left ELSE
        IF check_any(t, left.pos, {"And", "Or"})
        THEN (LET op_token == advance(t, left.pos) IN
             Only({ IF Failed(right) THEN right ELSE
                 Ok(right.pos,
                    BinOp(IF op_token.node.type = "And" THEN "And" ELSE "Or",
                          left.node, right.node))
               : right \in {parse_exp1(t, op_token.pos)} }))
        ELSE left
      : left \in {parse_exp2(t, p)} })

\* the if chain of parse_exp2 from the type of the operator token
ComparisonOp(type) ==
    CASE type = "Equal" -> "Eq"
      [] type = "NotEq" -> "NotEq"
      [] type = "Lt" -> "Lt"
      [] type = "Lte" -> "Lte"
      [] type = "Gt" -> "Gt"
      [] type = "Gte" -> "Gte"

parse_exp2_loop(t, left) ==
    IF Failed(left) THEN left
    ELSE IF check_any(t, left.pos, {"Equal", "NotEq", "Lt", "Lte", "Gt", "Gte"})
    THEN (LET op_token == advance(t, left.pos) IN
         Only({ IF Failed(right) THEN right ELSE
             parse_exp2_loop(t, Ok(right.pos,
                 BinOp(ComparisonOp(op_token.node.type), left.node, right.node)))
           : right \in {parse_exp3(t, op_token.pos)} }))
    ELSE left

\* exp2 ::= exp3 ([`==`,`!=`,`<`,`<=`,`>`,`>=`] exp3)*
parse_exp2(t, p) == parse_exp2_loop(t, parse_exp3(t, p))

\* parse_exp3_loop with the right operand parsed by parse_exp3
parse_exp3_loop_right_exp3(t, left) ==
    IF Failed(left) THEN left
    ELSE IF check_any(t, left.pos, {"Plus", "Dash"})
    THEN (LET op_token == advance(t, left.pos) IN
         Only({ IF Failed(right) THEN right ELSE
             parse_exp3_loop(t, Ok(right.pos,
                 BinOp(IF op_token.node.type = "Plus" THEN "Add" ELSE "Sub",
                       left.node, right.node)))
           : right \in {parse_exp3(t, op_token.pos)} }))
    ELSE left

\* the while loop of parse_exp3, `left' parsed so far
parse_exp3_loop(t, left) ==
    IF Failed(left) THEN left
    ELSE IF check_any(t, left.pos, {"Plus", "Dash"})
    THEN (LET op_token == advance(t, left.pos) IN
         Only({ IF Failed(right) THEN right ELSE
             parse_exp3_loop(t, Ok(right.pos,
                 BinOp(IF op_token.node.type = "Plus" THEN "Add" ELSE "Sub",
                       left.node, right.node)))
           : right \in {parse_exp4(t, op_token.pos)} }))
    ELSE left

\* exp3 ::= exp4 ((`+`|`-`) exp4)*
parse_exp3(t, p) == parse_exp3_loop(t, parse_exp4(t, p))

parse_exp4_loop(t, left) ==
    IF Failed(left) THEN left
    ELSE IF check_any(t, left.pos, {"Star", "Slash"})
    THEN (LET op_token == advance(t, left.pos) IN
         Only({ IF Failed(right) THEN right ELSE
             parse_exp4_loop(t, Ok(right.pos,
                 BinOp(IF op_token.node.type = "Star" THEN "Mul" ELSE "Div",
                       left.node, right.node)))
           : right \in {parse_exp5(t, op_token.pos)} }))
    ELSE left

\* exp4 ::= exp5 ((`*`|`/`) exp5)*
parse_exp4(t, p) == parse_exp4_loop(t, parse_exp5(t, p))

\* parse_exp5 with the operand of a prefix operator parsed by parse_exp4
parse_exp5_operand_exp4(t, p) ==
    IF check_any(t, p, {"Dash", "Not"})
    THEN (LET op_token == advance(t, p) IN
         Only({ IF Failed(exp) THEN exp ELSE
             Ok(exp.pos, UnOp(IF op_token.node.type = "Dash" THEN "Neg" ELSE "Not",
                              exp.node))
           : exp \in {parse_exp4(t, op_token.pos)} }))
    ELSE parse_exp6(t, p)

\* exp5 ::= unop* exp6
parse_exp5(t, p) ==
    IF check_any(t, p, {"Dash", "Not"})
    THEN (LET op_token == advance(t, p) IN
         Only({ IF Failed(exp) THEN exp ELSE
             Ok(exp.pos, UnOp(IF op_token.node.type = "Dash" THEN "Neg" ELSE "Not",
                              exp.node))
           : exp \in {parse_exp5(t, op_token.pos)} }))
    ELSE parse_exp6(t, p)

\* do { args.push_back(parse_exp()); } while (check("Comma") && (advance(), true));
parse_arg_list(t, p, acc) ==
    Only({ IF Failed(e) THEN e ELSE
        IF check(t, e.pos, "Comma")
        THEN parse_arg_list(t, advance(t, e.pos).pos, Append(acc, e.node))
        ELSE Ok(e.pos, Append(acc, e.node))
      : e \in {parse_exp(t, p)} })

\* parse_exp6_loop that returns after a call instead of going on
parse_exp6_loop_call_ends(t, exp) ==
    IF Failed(exp) THEN exp
    ELSE IF check(t, exp.pos, "OpenBracket")
    THEN Only({ IF Failed(index) THEN index ELSE
         LET close == consume(t, index.pos, "CloseBracket") IN
         IF Failed(close) THEN close ELSE
             parse_exp6_loop(t, Ok(close.pos, Val(ArrayAccess(exp.node, index.node))))
           : index \in {parse_exp(t, advance(t, exp.pos).pos)} })
    ELSE IF check(t, exp.pos, "Dot")
    THEN (LET dot == advance(t, exp.pos) IN
             IF check(t, dot.pos, "Id")
             THEN (LET field_token == advance(t, dot.pos) IN
                      parse_exp6_loop(t, Ok(field_token.pos,
                          Val(FieldAccess(exp.node, field_token.node.value)))))
             ELSE IF check(t, dot.pos, "Star")
             THEN parse_exp6_loop(t, Ok(advance(t, dot.pos).pos, Val(Deref(exp.node))))
             ELSE LET tok == peek(t, dot.pos) IN
                  IF Failed(tok) THEN tok ELSE
                      error(dot.pos, UnexpectedToken(tok.node.index)))
    ELSE IF check(t, exp.pos, "OpenParen")
    THEN (LET open == advance(t, exp.pos) IN
         Only({ IF Failed(args) THEN args ELSE
         LET close == consume(t, args.pos, "CloseParen") IN
         IF Failed(close) THEN close ELSE
             Ok(close.pos, CallExp(FunCall(exp.node, args.node)))
           : args \in {IF ~check(t, open.pos, "CloseParen") THEN parse_arg_list(t, open.pos, <<>>)
                       ELSE Ok(open.pos, <<>>)} }))
    ELSE exp

\* the while (true) loop of parse_exp6, `exp' built so far; an exception
\* thrown by parse_exp7 leaves parse_exp6
parse_exp6_loop(t, exp) ==
    IF Failed(exp) THEN exp
    ELSE IF check(t, exp.pos, "OpenBracket")
    THEN Only({ IF Failed(index) THEN index ELSE
         LET close == consume(t, index.pos, "CloseBracket") IN
         IF Failed(close) THEN close ELSE
             parse_exp6_loop(t, Ok(close.pos, Val(ArrayAccess(exp.node, index.node))))
           : index \in {parse_exp(t, advance(t, exp.pos).pos)} })
    ELSE IF check(t, exp.pos, "Dot")
    THEN (LET dot == advance(t, exp.pos) IN
             IF check(t, dot.pos, "Id")
             THEN (LET field_token == advance(t, dot.pos) IN
                      parse_exp6_loop(t, Ok(field_token.pos,
                          Val(FieldAccess(exp.node, field_token.node.value)))))
             ELSE IF check(t, dot.pos, "Star")
             THEN parse_exp6_loop(t, Ok(advance(t, dot.pos).pos, Val(Deref(exp.node))))
             ELSE LET tok == peek(t, dot.pos) IN
                  IF Failed(tok) THEN tok ELSE
                      error(dot.pos, UnexpectedToken(tok.node.index)))
    ELSE IF check(t, exp.pos, "OpenParen")
    THEN (LET open == advance(t, exp.pos) IN
         Only({ IF Failed(args) THEN args ELSE
         LET close == consume(t, args.pos, "CloseParen") IN
         IF Failed(close) THEN close ELSE
             parse_exp6_loop(t, Ok(close.pos, CallExp(FunCall(exp.node, args.node))))
           : args \in {IF ~check(t, open.pos, "CloseParen") THEN parse_arg_list(t, open.pos, <<>>)
                       ELSE Ok(open.pos, <<>>)} }))
    ELSE exp

\* exp6 ::= exp7 call_or_access*
parse_exp6(t, p) == parse_exp6_loop(t, parse_exp7(t, p))

\* the Num case of parse_exp7: std::out_of_range is caught and reported, a
\* std::invalid_argument of std::stoll is not caught
parse_num(t, p) ==
    LET num_token == advance(t, p)
        v == stoll(num_token.node.value)
    IN  IF v.status = "ok"
        THEN Ok(num_token.pos, Num([neg |-> v.neg, digits |-> v.digits]))
        ELSE IF v.status = "out_of_range"
        THEN error(num_token.pos, InvalidI64(num_token.node.value, num_token.node.index))
        ELSE Thrown(num_token.pos,
                    [exception |-> "std::invalid_argument", prefix |-> "", msg |-> "stoll",
                     lexeme |-> num_token.node.value, at |-> num_token.node.index])

parse_exp7(t, p) ==
    IF check(t, p, "Id") THEN Ok(advance(t, p).pos, Val(Id(advance(t, p).node.value)))
    ELSE IF check(t, p, "Num") THEN parse_num(t, p)
    ELSE IF check(t, p, "Nil") THEN Ok(advance(t, p).pos, NilExp)
    ELSE IF check(t, p, "New")
    THEN Only({ IF Failed(type) THEN type ELSE
             Ok(type.pos, NewSingle(type.node))
           : type \in {parse_type(t, advance(t, p).pos)} })
    ELSE IF check(t, p, "OpenBracket")
    THEN Only({ IF Failed(type) THEN type ELSE
         LET semi == consume(t, type.pos, "Semicolon") IN
         IF Failed(semi) THEN semi ELSE
         Only({ IF Failed(size_exp) THEN size_exp ELSE
         LET close == consume(t, size_exp.pos, "CloseBracket") IN
         IF Failed(close) THEN close ELSE
             Ok(close.pos, NewArray(type.node, size_exp.node))
           : size_exp \in {parse_exp(t, semi.pos)} })
           : type \in {parse_type(t, advance(t, p).pos)} })
    ELSE IF check(t, p, "OpenParen")
    THEN Only({ IF Failed(exp) THEN exp ELSE
         LET close == consume(t, exp.pos, "CloseParen") IN
         IF Failed(close) THEN close ELSE
             Ok(close.pos, exp.node)
           : exp \in {parse_exp(t, advance(t, p).pos)} })
    ELSE LET tok == peek(t, p) IN
         IF Failed(tok) THEN tok ELSE
             error(p, UnexpectedToken(tok.node.index))

\* while (!check("CloseBrace") && !is_at_end()) stmts.push_back(parse_stmt());
parse_stmt_list(t, p, acc) ==
    IF ~check(t, p, "CloseBrace") /\ ~is_at_end(t, p)
    THEN Only({ IF Failed(st) THEN st ELSE
             parse_stmt_list(t, st.pos, Append(acc, st.node))
           : st \in {parse_stmt(t, p)} })
    ELSE Ok(p, acc)

\* block ::= `{` stmt* `}`
parse_block(t, p) ==
    LET open == consume(t, p, "OpenBrace") IN
    IF Failed(open) THEN open ELSE
    Only({ IF Failed(stmts) THEN stmts ELSE
    LET close == consume(t, stmts.pos, "CloseBrace") IN
    IF Failed(close) THEN close ELSE
        Ok(close.pos, stmts.node)
      : stmts \in {parse_stmt_list(t, open.pos, <<>>)} })

\* `if` exp block (`else` block)?
parse_if_stmt(t, p) ==
    LET kw == consume(t, p, "If") IN
    IF Failed(kw) THEN kw ELSE
    Only({ IF Failed(guard) THEN guard ELSE
    Only({ IF Failed(tt) THEN tt ELSE
    Only({ IF Failed(ff) THEN ff ELSE
        Ok(ff.pos, If(guard.node, tt.node, ff.node))
      : ff \in {IF check(t, tt.pos, "Else") THEN parse_block(t, advance(t, tt.pos).pos)
                ELSE Ok(tt.pos, <<>>)} })
      : tt \in {parse_block(t, guard.pos)} })
      : guard \in {parse_exp(t, kw.pos)} })

\* `while` exp block
parse_while_stmt(t, p) ==
    LET kw == consume(t, p, "While") IN
    IF Failed(kw) THEN kw ELSE
    Only({ IF Failed(guard) THEN guard ELSE
    Only({ IF Failed(body) THEN body ELSE
        Ok(body.pos, While(guard.node, body.node))
      : body \in {parse_block(t, guard.pos)} })
      : guard \in {parse_exp(t, kw.pos)} })

\* `return` exp `;`
parse_return_stmt(t, p) ==
    LET kw == consume(t, p, "Return") IN
    IF Failed(kw) THEN kw ELSE
    Only({ IF Failed(exp) THEN exp ELSE
    LET semi == consume(t, exp.pos, "Semicolon") IN
    IF Failed(semi) THEN semi ELSE
        Ok(semi.pos, Return(exp.node))
      : exp \in {parse_exp(t, kw.pos)} })

\* parse_assignment without the dynamic_cast: any left expression is assigned to
parse_assignment_any_lhs(t, start_token_index, left_exp) ==
    Only({ IF Failed(right_exp) THEN right_exp ELSE
    LET semi == consume(t, right_exp.pos, "Semicolon") IN
    IF Failed(semi) THEN semi ELSE
        IF left_exp.node.kind = "Val"
        THEN Ok(semi.pos, Assign(left_exp.node.place, right_exp.node))
        ELSE Ok(semi.pos, Assign(left_exp.node, right_exp.node))
      : right_exp \in {parse_exp(t, advance(t, left_exp.pos).pos)} })

\* parse_assignment reporting the token at `=' instead of start_token_index
parse_assignment_reports_gets(t, start_token_index, left_exp) ==
    Only({ IF Failed(right_exp) THEN right_exp ELSE
    LET semi == consume(t, right_exp.pos, "Semicolon") IN
    IF Failed(semi) THEN semi ELSE
        IF left_exp.node.kind = "Val"
        THEN Ok(semi.pos, Assign(left_exp.node.place, right_exp.node))
        ELSE error(semi.pos, NotAPlace(advance(t, left_exp.pos).node.index))
      : right_exp \in {parse_exp(t, advance(t, left_exp.pos).pos)} })

\* parse_assignment with the place check before the right-hand side is parsed
parse_assignment_checks_first(t, start_token_index, left_exp) ==
    IF left_exp.node.kind # "Val" THEN error(left_exp.pos, NotAPlace(start_token_index))
    ELSE
    Only({ IF Failed(right_exp) THEN right_exp ELSE
    LET semi == consume(t, right_exp.pos, "Semicolon") IN
    IF Failed(semi) THEN semi ELSE
        Ok(semi.pos, Assign(left_exp.node.place, right_exp.node))
      : right_exp \in {parse_exp(t, advance(t, left_exp.pos).pos)} })

\* the assignment branch of parse_stmt: left_exp parsed, the cursor at `='
parse_assignment(t, start_token_index, left_exp) ==
    Only({ IF Failed(right_exp) THEN right_exp ELSE
    LET semi == consume(t, right_exp.pos, "Semicolon") IN
    IF Failed(semi) THEN semi ELSE
        IF left_exp.node.kind = "Val"               \* dynamic_cast<Val*>
        THEN Ok(semi.pos, Assign(left_exp.node.place, right_exp.node))
        ELSE error(semi.pos, NotAPlace(start_token_index))
      : right_exp \in {parse_exp(t, advance(t, left_exp.pos).pos)} })

\* parse_standalone without the dynamic_cast: any expression makes a statement
parse_standalone_any_exp(t, start_token_index, left_exp) ==
    LET semi == consume(t, left_exp.pos, "Semicolon") IN
    IF Failed(semi) THEN semi ELSE
        IF left_exp.node.kind = "CallExp"
        THEN Ok(semi.pos, CallStmt(left_exp.node.fun_call))
        ELSE Ok(semi.pos, CallStmt(left_exp.node))

\* the standalone-expression branch of parse_stmt: left_exp parsed
parse_standalone(t, start_token_index, left_exp) ==
    LET semi == consume(t, left_exp.pos, "Semicolon") IN
    IF Failed(semi) THEN semi ELSE
        IF left_exp.node.kind = "CallExp"           \* dynamic_cast<CallExp*>
        THEN Ok(semi.pos, CallStmt(left_exp.node.fun_call))
        ELSE error(semi.pos, NotACall(start_token_index))

\* stmt ::= exp (`=` exp)? `;` | `if`... | `while`... | `break`... | `continue`... | `return`...
parse_stmt(t, p) ==
    IF check(t, p, "If") THEN parse_if_stmt(t, p)
    ELSE IF check(t, p, "While") THEN parse_while_stmt(t, p)
    ELSE IF check(t, p, "Return") THEN parse_return_stmt(t, p)
    ELSE IF check(t, p, "Break")
    THEN (LET semi == consume(t, advance(t, p).pos, "Semicolon") IN
         IF Failed(semi) THEN semi ELSE
             Ok(semi.pos, Break))
    ELSE IF check(t, p, "Continue")
    THEN (LET semi == consume(t, advance(t, p).pos, "Semicolon") IN
         IF Failed(semi) THEN semi ELSE
             Ok(semi.pos, Continue))
    \* size_t start_token_index = peek().index; auto left_exp = parse_exp();
    ELSE LET start_token == peek(t, p) IN
         IF Failed(start_token) THEN start_token ELSE
         Only({ IF Failed(left_exp) THEN left_exp ELSE
             IF check(t, left_exp.pos, "Gets")
             THEN parse_assignment(t, start_token.node.index, left_exp)
             ELSE parse_standalone(t, start_token.node.index, left_exp)
           : left_exp \in {parse_exp(t, p)} })

\* while (check("Let")) { consume Let; LIST(decl); consume Semicolon }
RECURSIVE parse_lets(_, _, _)
parse_lets(t, p, locals) ==
    IF check(t, p, "Let")
    THEN (LET kw == consume(t, p, "Let") IN
         IF Failed(kw) THEN kw ELSE
         Only({ IF Failed(decls) THEN decls ELSE
         LET semi == consume(t, decls.pos, "Semicolon") IN
         IF Failed(semi) THEN semi ELSE
             parse_lets(t, semi.pos, decls.node)
           : decls \in {IF ~check(t, kw.pos, "Semicolon") THEN parse_decl_list(t, kw.pos, locals)
                        ELSE Ok(kw.pos, locals)} }))
    ELSE Ok(p, locals)

\* function ::= `fn` id `(` LIST(decl) `)` `->` type `{` let* stmt* `}`
parse_function_def(t, p) ==
    LET kw == consume(t, p, "Fn") IN
    IF Failed(kw) THEN kw ELSE
    LET name == consume(t, kw.pos, "Id") IN
    IF Failed(name) THEN name ELSE
    LET open == consume(t, name.pos, "OpenParen") IN
    IF Failed(open) THEN open ELSE
    Only({ IF Failed(params) THEN params ELSE
    LET close == consume(t, params.pos, "CloseParen") IN
    IF Failed(close) THEN close ELSE
    LET arrow == consume(t, close.pos, "Arrow") IN
    IF Failed(arrow) THEN arrow ELSE
    Only({ IF Failed(rettype) THEN rettype ELSE
    LET brace == consume(t, rettype.pos, "OpenBrace") IN
    IF Failed(brace) THEN brace ELSE
    Only({ IF Failed(locals) THEN locals ELSE
    Only({ IF Failed(stmts) THEN stmts ELSE
    LET end == consume(t, stmts.pos, "CloseBrace") IN
    IF Failed(end) THEN end ELSE
        Ok(end.pos, FunctionDef(name.node.value, params.node, rettype.node,
                                locals.node, stmts.node))
      : stmts \in {parse_stmt_list(t, locals.pos, <<>>)} })
      : locals \in {parse_lets(t, brace.pos, <<>>)} })
      : rettype \in {parse_type(t, arrow.pos)} })
      : params \in {IF ~check(t, open.pos, "CloseParen") THEN parse_decl_list(t, open.pos, <<>>)
                    ELSE Ok(open.pos, <<>>)} })

\* `struct` id `{` LIST(decl) `}`
parse_struct_def(t, p) ==
    LET kw == consume(t, p, "Struct") IN
    IF Failed(kw) THEN kw ELSE
    LET name == consume(t, kw.pos, "Id") IN
    IF Failed(name) THEN name ELSE
    LET open == consume(t, name.pos, "OpenBrace") IN
    IF Failed(open) THEN open ELSE
    Only({ IF Failed(fields) THEN fields ELSE
    LET close == consume(t, fields.pos, "CloseBrace") IN
    IF Failed(close) THEN close ELSE
        Ok(close.pos, StructDef(name.node.value, fields.node))
      : fields \in {IF ~check(t, open.pos, "CloseBrace") THEN parse_decl_list(t, open.pos, <<>>)
                    ELSE Ok(open.pos, <<>>)} })

\* extern ::= `extern` id `:` funtype `;`
parse_extern_def(t, p) ==
    LET kw == consume(t, p, "Extern") IN
    IF Failed(kw) THEN kw ELSE
    LET id_token == consume(t, kw.pos, "Id") IN
    IF Failed(id_token) THEN id_token ELSE
    LET colon == consume(t, id_token.pos, "Colon") IN
    IF Failed(colon) THEN colon ELSE
    Only({ IF Failed(funtype) THEN funtype ELSE
    LET semi == consume(t, funtype.pos, "Semicolon") IN
    IF Failed(semi) THEN semi ELSE
        Ok(semi.pos, Decl(id_token.node.value, funtype.node))
      : funtype \in {parse_funtype(t, colon.pos)} })

\* ProgramWith that puts the definition in front of its list
ProgramWith_in_front(prog, list, node) ==
    CASE list = "structs" -> Program(<<node>> \o prog.structs, prog.externs, prog.functions)
      [] list = "externs" -> Program(prog.structs, <<node>> \o prog.externs, prog.functions)
      [] list = "functions" -> Program(prog.structs, prog.externs, <<node>> \o prog.functions)

\* one pass of the while loop of parse_program at a token of type `type':
\* the definition parsed by `r' is pushed to the list `list' of the program
ProgramWith(prog, list, node) ==
    CASE list = "structs" -> Program(Append(prog.structs, node), prog.externs, prog.functions)
      [] list = "externs" -> Program(prog.structs, Append(prog.externs, node), prog.functions)
      [] list = "functions" -> Program(prog.structs, prog.externs, Append(prog.functions, node))

-----------------------------------------------------------------------------
(* The parse executable: main of src/unnamed/part_000 runs Parser(tokens).parse() *)

Tk(type) == [type |-> type, value |-> <<>>]
IdTk(name) == [type |-> "Id", value |-> <<name>>]
NumTk(digit) == [type |-> "Num", value |-> <<digit>>]

\* the tokens ts with the indices tokenize_input gives them when `lead' empty
\* parts come before the first one
Indexed(ts, lead) ==
    [k \in 1..Len(ts) |-> PToken(ts[k].type, ts[k].value, k - 1 + lead)]

\* fn f ( ) -> int { body }
InFunction(body) ==
    <<Tk("Fn"), IdTk("f"), Tk("OpenParen"), Tk("CloseParen"), Tk("Arrow"), Tk("Int"),
      Tk("OpenBrace")>> \o body \o <<Tk("CloseBrace")>>

\* the cursor of the first statement of InFunction(body)
BodyStart == Len(InFunction(<<>>)) - 1

StmtTokens ==
    {IdTk("x"), NumTk("1"), Tk("Gets"), Tk("Semicolon"), Tk("Dot"), Tk("Star")}

\* expressions of every node kind, as token sequences
ExpForms ==
    LET x == IdTk("x")
        f == IdTk("f")
        one == NumTk("1")
    IN  { <<x>>, <<one>>, <<Tk("Nil")>>,
          <<Tk("Dash"), x>>, <<Tk("Not"), x>>, <<Tk("Dash"), one>>,
          <<x, Tk("Plus"), one>>, <<x, Tk("Star"), x>>, <<x, Tk("Equal"), one>>,
          <<x, Tk("And"), x>>, <<x, Tk("Lt"), x, Tk("Or"), x>>,
          <<x, Tk("QuestionMark"), x, Tk("Colon"), x>>,
          <<x, Tk("QuestionMark"), x, Tk("Colon"), x, Tk("Dot"), f>>,
          <<f, Tk("OpenParen"), Tk("CloseParen")>>,
          <<f, Tk("OpenParen"), x, Tk("Comma"), one, Tk("CloseParen")>>,
          <<Tk("New"), Tk("Int")>>, <<Tk("New"), Tk("Ampersand"), x>>,
          <<Tk("OpenBracket"), Tk("Int"), Tk("Semicolon"), one, Tk("CloseBracket")>>,
          <<x, Tk("Dot"), f>>, <<x, Tk("Dot"), Tk("Star")>>,
          <<x, Tk("OpenBracket"), one, Tk("CloseBracket")>>,
          <<Tk("OpenParen"), x, Tk("CloseParen")>>,
          <<Tk("OpenParen"), one, Tk("CloseParen")>>,
          <<Tk("OpenParen"), x, Tk("Plus"), one, Tk("CloseParen"), Tk("Dot"), Tk("Star")>>,
          <<x, Tk("Dot"), Tk("Star"), Tk("Dot"), f, Tk("OpenBracket"), x, Tk("CloseBracket"),
            Tk("OpenParen"), x, Tk("CloseParen")>>,
          <<x, Tk("Dot"), Tk("Star"), Tk("Dot"), f, Tk("OpenBracket"), x, Tk("CloseBracket")>>,
          <<f, Tk("OpenParen"), Tk("CloseParen"), Tk("Dot"), f>>,
          <<f, Tk("OpenParen"), Tk("CloseParen"), Tk("OpenBracket"), one, Tk("CloseBracket")>>,
          <<f, Tk("OpenParen"), Tk("CloseParen"), Tk("Dot"), Tk("Star")>>,
          <<x, Tk("OpenBracket"), one, Tk("CloseBracket"), Tk("OpenParen"), Tk("CloseParen")>>,
          <<Tk("Dash"), x, Tk("Dot"), f>>,
          <<Tk("New"), x, Tk("Dot"), f>>,
          <<Tk("Nil"), Tk("Dot"), Tk("Star")>>,
          <<one, Tk("OpenBracket"), x, Tk("CloseBracket")>>,
          <<x, Tk("Dot"), Tk("Semicolon")>>, <<x, Tk("Plus")>>, <<Tk("Error")>> }

\* the expression forms put inside blocks: one of each kind that an operand
\* without brackets makes
FlatExps ==
    LET x == IdTk("x")
        f == IdTk("f")
        one == NumTk("1")
    IN  { <<x>>, <<one>>, <<Tk("Nil")>>, <<Tk("Not"), x>>, <<x, Tk("Plus"), one>>,
          <<f, Tk("OpenParen"), Tk("CloseParen")>>, <<Tk("New"), Tk("Int")>>,
          <<x, Tk("Dot"), f>>, <<x, Tk("Dot"), Tk("Star")>>, <<x, Tk("Plus")>> }

\* one statement around each expression of E: an assignment, a standalone
\* expression, and the same with its end missing
StmtForms(E) ==
    LET x == IdTk("x")
        one == NumTk("1")
    IN  UNION { { e \o <<Tk("Gets"), x, Tk("Semicolon")>>,
                  e \o <<Tk("Gets"), one, Tk("Plus"), x, Tk("Semicolon")>>,
                  e \o <<Tk("Semicolon")>>,
                  e \o <<Tk("Gets"), x>>,
                  e \o <<Tk("Gets"), Tk("Semicolon")>>,
                  e \o <<Tk("Gets"), x, Tk("Gets"), x, Tk("Semicolon")>>,
                  e } : e \in E }
        \cup { <<Tk("Break"), Tk("Semicolon")>>, <<Tk("Continue"), Tk("Semicolon")>>,
               <<Tk("Return"), x, Tk("Semicolon")>>, <<Tk("Break")>>,
               <<Tk("Return"), Tk("Semicolon")>> }

SimpleStmts ==
    { <<IdTk("y"), Tk("Gets"), NumTk("2"), Tk("Semicolon")>>,
      <<IdTk("g"), Tk("OpenParen"), Tk("CloseParen"), Tk("Semicolon")>> }

\* up to n statements of SimpleStmts in a row
RECURSIVE StmtRuns(_)
StmtRuns(n) ==
    IF n = 0 THEN {<<>>}
    ELSE StmtRuns(n - 1) \cup {r \o st : r \in StmtRuns(n - 1), st \in SimpleStmts}

\* the statement sequences S inside up to n if, else and while blocks
RECURSIVE Nested(_, _)
Nested(S, n) ==
    IF n = 0 THEN S
    ELSE LET x == IdTk("x")
             In == Nested(S, n - 1)
         IN  In \cup { <<Tk("If"), x, Tk("OpenBrace")>> \o b \o <<Tk("CloseBrace")>> : b \in In }
                \cup { <<Tk("If"), x, Tk("OpenBrace"), Tk("CloseBrace"), Tk("Else"),
                         Tk("OpenBrace")>> \o b \o <<Tk("CloseBrace")>> : b \in In }
                \cup { <<Tk("While"), x, Tk("OpenBrace")>> \o b \o <<Tk("CloseBrace")>> : b \in In }

Bodies ==
    SeqsUpTo(StmtTokens, MaxBody)
        \cup { r \o b : r \in StmtRuns(MaxStmts),
                        b \in StmtForms(ExpForms) \cup Nested(StmtForms(FlatExps), MaxNest) }

\* top-level definitions, whole and broken
TopForms ==
    LET x == IdTk("x")
        s == IdTk("S")
    IN  { <<Tk("Struct"), s, Tk("OpenBrace"), Tk("CloseBrace")>>,
          <<Tk("Struct"), s, Tk("OpenBrace"), x, Tk("Colon"), Tk("Int"), Tk("CloseBrace")>>,
          <<Tk("Struct"), s, Tk("OpenBrace"), x, Tk("Colon"), Tk("Int"), Tk("Comma"),
            x, Tk("Colon"), Tk("Ampersand"), s, Tk("CloseBrace")>>,
          <<Tk("Struct"), s, Tk("OpenBrace"), x, Tk("Colon"), Tk("Int"), Tk("Comma"),
            Tk("CloseBrace")>>,
          <<Tk("Struct"), s, Tk("OpenBrace")>>,
          <<Tk("Extern"), x, Tk("Colon"), Tk("OpenParen"), Tk("CloseParen"), Tk("Arrow"),
            Tk("Int"), Tk("Semicolon")>>,
          <<Tk("Extern"), x, Tk("Colon"), Tk("OpenParen"), Tk("Int"), Tk("Comma"),
            Tk("OpenBracket"), s, Tk("CloseBracket"), Tk("CloseParen"), Tk("Arrow"),
            Tk("Ampersand"), Tk("Int"), Tk("Semicolon")>>,
          <<Tk("Extern"), x, Tk("Colon"), Tk("Int"), Tk("Semicolon")>>,
          <<Tk("Extern"), x, Tk("Colon"), Tk("OpenParen"), Tk("CloseParen"), Tk("Arrow"),
            Tk("Int")>>,
          <<Tk("Fn"), x, Tk("OpenParen"), x, Tk("Colon"), Tk("Int"), Tk("CloseParen"),
            Tk("Arrow"), s, Tk("OpenBrace"), Tk("Let"), x, Tk("Colon"), Tk("Int"),
            Tk("Semicolon"), Tk("Return"), x, Tk("Semicolon"), Tk("CloseBrace")>>,
          <<Tk("Fn"), x, Tk("OpenParen"), Tk("CloseParen"), Tk("Arrow"), Tk("Int"),
            Tk("OpenBrace"), Tk("CloseBrace")>>,
          <<Tk("Fn"), x, Tk("OpenParen"), Tk("CloseParen"), Tk("OpenBrace"), Tk("CloseBrace")>>,
          <<Tk("Semicolon")>>, <<Tk("Error")>>, <<x>> }

\* up to n top-level forms in a row
RECURSIVE TopRuns(_)
TopRuns(n) ==
    IF n = 0 THEN {<<>>}
    ELSE TopRuns(n - 1) \cup {r \o d : r \in TopRuns(n - 1), d \in TopForms}

\* well-formed programs
WholePrograms ==
    LET x == IdTk("x")
        y == IdTk("y")
        s == IdTk("S")
        g == IdTk("g")
        struct == <<Tk("Struct"), s, Tk("OpenBrace"), x, Tk("Colon"), Tk("Int"), Tk("Comma"),
                    y, Tk("Colon"), Tk("Ampersand"), s, Tk("CloseBrace")>>
        extern == <<Tk("Extern"), g, Tk("Colon"), Tk("OpenParen"), Tk("Int"), Tk("CloseParen"),
                    Tk("Arrow"), Tk("Int"), Tk("Semicolon")>>
        fn == <<Tk("Fn"), g, Tk("OpenParen"), x, Tk("Colon"), Tk("Int"), Tk("CloseParen"),
                Tk("Arrow"), Tk("Int"), Tk("OpenBrace"), Tk("Let"), y, Tk("Colon"), Tk("Int"),
                Tk("Semicolon"), y, Tk("Gets"), x, Tk("Plus"), NumTk("1"), Tk("Semicolon"),
                Tk("Return"), y, Tk("Semicolon"), Tk("CloseBrace")>>
    IN  { struct, extern, fn, struct \o extern \o fn,
          InFunction(<<Tk("If"), x, Tk("Lt"), NumTk("1"), Tk("OpenBrace"),
                       g, Tk("OpenParen"), Tk("CloseParen"), Tk("Semicolon"),
                       Tk("CloseBrace"), Tk("Else"), Tk("OpenBrace"),
                       x, Tk("Dot"), IdTk("f"), Tk("Gets"), Tk("Nil"), Tk("Semicolon"),
                       Tk("CloseBrace")>>),
          InFunction(<<Tk("While"), Tk("Not"), x, Tk("OpenBrace"),
                       x, Tk("Dot"), Tk("Star"), Tk("Gets"), NumTk("1"), Tk("Semicolon"),
                       Tk("Break"), Tk("Semicolon"), Tk("CloseBrace"),
                       Tk("Continue"), Tk("Semicolon")>>),
          InFunction(<<x, Tk("OpenBracket"), NumTk("1"), Tk("CloseBracket"), Tk("Gets"),
                       x, Tk("QuestionMark"), NumTk("1"), Tk("Colon"), NumTk("2"),
                       Tk("Semicolon"),
                       g, Tk("OpenParen"), x, Tk("Comma"), NumTk("1"), Tk("CloseParen"),
                       Tk("Semicolon")>>),
          InFunction(<<x, Tk("Gets"), Tk("OpenBracket"), Tk("Int"), Tk("Semicolon"),
                       NumTk("2"), Tk("CloseBracket"), Tk("Semicolon"),
                       y, Tk("Gets"), Tk("New"), s, Tk("Semicolon"),
                       y, Tk("Gets"), Tk("Dash"), Tk("OpenParen"), x, Tk("CloseParen"),
                       Tk("Semicolon")>>) }

\* programs with a statement that is no call, an assignment to no place and a
\* Num out of range
FlawedPrograms ==
    LET x == IdTk("x")
    IN  { InFunction(<<x, Tk("Semicolon"), x, Tk("Gets"), x, Tk("Semicolon")>>),
          InFunction(<<NumTk("1"), Tk("Gets"), x, Tk("Semicolon"), x, Tk("Gets"), x,
                       Tk("Semicolon")>>),
          InFunction(<<x, Tk("Gets"), [type |-> "Num", value |-> LLongMinDigits],
                       Tk("Semicolon"), x, Tk("Gets"), x, Tk("Semicolon")>>),
          InFunction(<<x, Tk("Gets"), [type |-> "Num", value |-> LLongMaxDigits],
                       Tk("Semicolon")>>) }

\* the places of the grammar that hold a LIST
ListSites == {"params", "lets", "fields", "args", "types"}

\* how a list is written: well, with a comma before its first element, with a
\* comma after its last one, or with two commas before its last one
ListFlaws == {"none", "leading", "trailing", "double"}

ElemNames == <<"a", "b", "c", "d", "e", "f">>

\* the tokens of the k-th element of a list at `site': a decl, an expression
\* or a type, different from its neighbours
Elem(site, k) ==
    IF site = "args" THEN <<IdTk(ElemNames[k])>>
    ELSE IF site = "types"
    THEN (IF k % 2 = 1 THEN <<Tk("Int")>> ELSE <<IdTk(ElemNames[k])>>)
    ELSE <<IdTk(ElemNames[k]), Tk("Colon")>>
         \o (IF k % 2 = 1 THEN <<Tk("Int")>> ELSE <<Tk("Ampersand"), Tk("Int")>>)

\* X (`,' X)* with n elements
RECURSIVE Joined(_, _)
Joined(site, n) ==
    IF n = 0 THEN <<>>
    ELSE IF n = 1 THEN Elem(site, 1)
    ELSE Joined(site, n - 1) \o <<Tk("Comma")>> \o Elem(site, n)

ListTokens(site, n, flaw) ==
    CASE flaw = "none" -> Joined(site, n)
      [] flaw = "leading" -> <<Tk("Comma")>> \o Joined(site, n)
      [] flaw = "trailing" -> Joined(site, n) \o <<Tk("Comma")>>
      [] flaw = "double" ->
            Joined(site, n - 1) \o <<Tk("Comma"), Tk("Comma")>> \o Elem(site, n)

\* the tokens before the list at `site' in a program that holds nothing else
ListBefore(site) ==
    CASE site = "params" -> <<Tk("Fn"), IdTk("f"), Tk("OpenParen")>>
      [] site = "lets" -> SubSeq(InFunction(<<>>), 1, BodyStart) \o <<Tk("Let")>>
      [] site = "fields" -> <<Tk("Struct"), IdTk("S"), Tk("OpenBrace")>>
      [] site = "args" ->
            SubSeq(InFunction(<<>>), 1, BodyStart) \o <<IdTk("g"), Tk("OpenParen")>>
      [] site = "types" -> <<Tk("Extern"), IdTk("g"), Tk("Colon"), Tk("OpenParen")>>

\* the tokens after it
ListAfter(site) ==
    CASE site = "params" ->
            <<Tk("CloseParen"), Tk("Arrow"), Tk("Int"), Tk("OpenBrace"), Tk("CloseBrace")>>
      [] site = "lets" -> <<Tk("Semicolon"), Tk("CloseBrace")>>
      [] site = "fields" -> <<Tk("CloseBrace")>>
      [] site = "args" -> <<Tk("CloseParen"), Tk("Semicolon"), Tk("CloseBrace")>>
      [] site = "types" -> <<Tk("CloseParen"), Tk("Arrow"), Tk("Int"), Tk("Semicolon")>>

ListProgram(site, n, flaw) ==
    ListBefore(site) \o ListTokens(site, n, flaw) \o ListAfter(site)

\* the lists the flaw can be made in: a trailing comma needs an element before
\* it, a doubled comma two
FlawSizes(flaw) ==
    CASE flaw \in {"none", "leading"} -> 0..MaxElems
      [] flaw = "trailing" -> 1..MaxElems
      [] flaw = "double" -> 2..MaxElems

ListPrograms ==
    UNION { { ListProgram(site, n, flaw) : site \in ListSites, n \in FlawSizes(flaw) }
            : flaw \in ListFlaws }

\* types with at most d constructors around `int' or the struct S
RECURSIVE TypeTrees(_)
TypeTrees(d) ==
    IF d = 0 THEN {IntType, StructType(<<"S">>)}
    ELSE LET inner == TypeTrees(d - 1)
         IN  inner
             \cup {PtrType(ty) : ty \in inner}
             \cup {ArrayType(ty) : ty \in inner}
             \cup {FnType(<<>>, ty) : ty \in inner}
             \cup {FnType(<<ty>>, IntType) : ty \in inner}
             \cup {FnType(<<IntType, ty>>, StructType(<<"S">>)) : ty \in inner}

AllTypeTrees == TypeTrees(MaxTypeDepth)

\* the tokens of a type, written by the grammar
\*   type ::= `int' | id | `&' type | `[' type `]' | `(' LIST(type) `)' `->' type
RECURSIVE TypeTokens(_)
RECURSIVE TypeListTokens(_)
TypeListTokens(types) ==
    IF types = <<>> THEN <<>>
    ELSE IF Len(types) = 1 THEN TypeTokens(types[1])
    ELSE TypeTokens(types[1]) \o <<Tk("Comma")>> \o TypeListTokens(Tail(types))

TypeTokens(ty) ==
    CASE ty.kind = "IntType" -> <<Tk("Int")>>
      [] ty.kind = "StructType" -> <<[type |-> "Id", value |-> ty.name]>>
      [] ty.kind = "PtrType" -> <<Tk("Ampersand")>> \o TypeTokens(ty.base_type)
      [] ty.kind = "ArrayType" ->
            <<Tk("OpenBracket")>> \o TypeTokens(ty.element_type) \o <<Tk("CloseBracket")>>
      [] ty.kind = "FnType" ->
            <<Tk("OpenParen")>> \o TypeListTokens(ty.param_types)
               \o <<Tk("CloseParen"), Tk("Arrow")>> \o TypeTokens(ty.return_type)

\* struct S { x : type }
FieldBefore == <<Tk("Struct"), IdTk("S"), Tk("OpenBrace"), IdTk("x"), Tk("Colon")>>

FieldOfType(type_tokens) == FieldBefore \o type_tokens \o <<Tk("CloseBrace")>>

\* tokens that begin no type
BadTypeStarts ==
    {Tk("Comma"), Tk("CloseParen"), Tk("CloseBracket"), Tk("CloseBrace"), Tk("Arrow"),
     Tk("Nil"), Tk("Star"), Tk("Semicolon"), Tk("Fn"), Tk("Struct"), Tk("New"),
     NumTk("1"), [type |-> "Error", value |-> <<"#">>]}

\* the tokens of a type up to a place where parse_type is called again
TypeContexts ==
    {<<>>, <<Tk("Ampersand")>>, <<Tk("OpenBracket")>>, <<Tk("OpenParen")>>,
     <<Tk("OpenParen"), Tk("Int"), Tk("Comma")>>,
     <<Tk("OpenParen"), Tk("CloseParen"), Tk("Arrow")>>}

\* a token that begins no type where parse_type is called; `( )' is the empty
\* list, whose `)' parse_funtype takes before any call of parse_type
BadTypes ==
    { ctx \o <<bad>> : ctx \in TypeContexts, bad \in BadTypeStarts }
       \ {<<Tk("OpenParen"), Tk("CloseParen")>>}

TypePrograms ==
    {FieldOfType(TypeTokens(ty)) : ty \in AllTypeTrees}
       \cup {FieldOfType(bad) : bad \in BadTypes}

\* the streams of S cut short after any token
Truncated(S) == UNION { {SubSeq(w, 1, n) : n \in 0..Len(w)} : w \in S }

\* the streams of S with an Error token in the place of any one token
WithErrorToken(S) ==
    UNION { {[w EXCEPT ![k] = [type |-> "Error", value |-> <<"#">>]] : k \in 1..Len(w)}
            : w \in S }

ParseInputs ==
    { Indexed(ts, lead) :
        ts \in {InFunction(b) : b \in Bodies} \cup TopRuns(MaxDefs)
                \cup Truncated(WholePrograms \cup FlawedPrograms)
                \cup WithErrorToken(WholePrograms \cup FlawedPrograms)
                \cup ListPrograms \cup TypePrograms,
        lead \in {0, 1} }

InitParse ==
    /\ m_tokens \in ParseInputs
    /\ m_current_pos = 0
    /\ program = Program(<<>>, <<>>, <<>>)
    /\ parse_pc = "start"
    /\ parse_error = <<>>
    /\ exp_ret = <<>>
    /\ LexIdle /\ TokIdle

\* AfterDefinition that recovers from an exception: it records the error, skips
\* the token at the cursor and goes on with the next definition
AfterDefinition_recovers(r, list) ==
    /\ IF Failed(r)
       THEN /\ parse_error' = r.err
            /\ parse_pc' = "loop"
            /\ m_current_pos' = IF is_at_end(m_tokens, r.pos) THEN r.pos ELSE r.pos + 1
            /\ program' = program
       ELSE /\ parse_error' = parse_error
            /\ parse_pc' = "loop"
            /\ m_current_pos' = r.pos
            /\ program' = ProgramWith(program, list, r.node)
    /\ UNCHANGED <<m_tokens, lexVars, tokVars, exp_ret>>

\* the state after the method with result r has run in parse_program: its
\* node is pushed to `list', or its exception leaves parse
AfterDefinition(r, list) ==
    /\ m_current_pos' = r.pos
    /\ IF Failed(r)
       THEN /\ parse_error' = r.err
            /\ parse_pc' = IF r.err[1].exception = "std::runtime_error"
                           THEN "error" ELSE "terminate"
            /\ program' = program
       ELSE /\ parse_error' = parse_error
            /\ parse_pc' = "loop"
            /\ program' = ProgramWith(program, list, r.node)
    /\ UNCHANGED <<m_tokens, lexVars, tokVars, exp_ret>>

\* if (is_at_end()) error("unexpected end of token stream");
ParseEmptyStream ==
    /\ parse_pc = "start" /\ is_at_end(m_tokens, m_current_pos)
    /\ parse_error' = error(m_current_pos, EndOfStream).err
    /\ parse_pc' = "error"
    /\ UNCHANGED <<m_tokens, m_current_pos, program, lexVars, tokVars, exp_ret>>

ParseBegin ==
    /\ parse_pc = "start" /\ ~is_at_end(m_tokens, m_current_pos)
    /\ parse_pc' = "loop"
    /\ UNCHANGED <<m_tokens, m_current_pos, program, parse_error, lexVars, tokVars, exp_ret>>

ParseStruct ==
    /\ parse_pc = "loop" /\ ~is_at_end(m_tokens, m_current_pos)
    /\ check(m_tokens, m_current_pos, "Struct")
    /\ \E r \in {parse_struct_def(m_tokens, m_current_pos)} : AfterDefinition(r, "structs")

ParseExtern ==
    /\ parse_pc = "loop" /\ ~is_at_end(m_tokens, m_current_pos)
    /\ ~check(m_tokens, m_current_pos, "Struct")
    /\ check(m_tokens, m_current_pos, "Extern")
    /\ \E r \in {parse_extern_def(m_tokens, m_current_pos)} : AfterDefinition(r, "externs")

ParseFunction ==
    /\ parse_pc = "loop" /\ ~is_at_end(m_tokens, m_current_pos)
    /\ ~check(m_tokens, m_current_pos, "Struct")
    /\ ~check(m_tokens, m_current_pos, "Extern")
    /\ check(m_tokens, m_current_pos, "Fn")
    /\ \E r \in {parse_function_def(m_tokens, m_current_pos)} : AfterDefinition(r, "functions")

\* else error("unexpected token at token " + std::to_string(peek().index));
ParseUnexpectedTop ==
    /\ parse_pc = "loop" /\ ~is_at_end(m_tokens, m_current_pos)
    /\ ~check(m_tokens, m_current_pos, "Struct")
    /\ ~check(m_tokens, m_current_pos, "Extern")
    /\ ~check(m_tokens, m_current_pos, "Fn")
    /\ parse_error' =
          error(m_current_pos,
                UnexpectedToken(peek(m_tokens, m_current_pos).node.index)).err
    /\ parse_pc' = "error"
    /\ UNCHANGED <<m_tokens, m_current_pos, program, lexVars, tokVars, exp_ret>>

\* while (!is_at_end()) fails: return program
ParseReturn ==
    /\ parse_pc = "loop" /\ is_at_end(m_tokens, m_current_pos)
    /\ parse_pc' = "done"
    /\ UNCHANGED <<m_tokens, m_current_pos, program, parse_error, lexVars, tokVars, exp_ret>>

NextParse ==
    \/ ParseEmptyStream \/ ParseBegin \/ ParseStruct \/ ParseExtern
    \/ ParseFunction \/ ParseUnexpectedTop \/ ParseReturn

SpecParse == InitParse /\ [][NextParse]_vars

-----------------------------------------------------------------------------
(* A call of parse_exp alone, on the tokens of one expression *)

BinTokens ==
    {"Star", "Slash", "Plus", "Dash", "Equal", "NotEq", "Lt", "Lte", "Gt", "Gte",
     "And", "Or"}

\* the operand put at place k of a row of operands
Operand(k) == IdTk(<<"a", "b", "c", "d", "e">>[k])

\* operands a, b, ... with n binary operators between them
RECURSIVE BinChains(_)
BinChains(n) ==
    IF n = 0 THEN {<<Operand(1)>>}
    ELSE {c \o <<Tk(op), Operand(n + 1)>> : c \in BinChains(n - 1), op \in BinTokens}

\* rows with at most one operator, one operator of each level
ShortChains ==
    {<<Operand(1)>>} \cup {<<Operand(1), Tk(op), Operand(2)>> : op \in {"Star", "Plus", "Lt", "Or"}}

\* g ? t : f over short rows, nested selections, and selections cut short
SelectForms ==
    LET a == IdTk("a")
        b == IdTk("b")
        c == IdTk("c")
        d == IdTk("d")
        e == IdTk("e")
        q == Tk("QuestionMark")
        colon == Tk("Colon")
    IN  {g \o <<q>> \o tt \o <<colon>> \o ff : g \in ShortChains, tt \in ShortChains, ff \in ShortChains}
        \cup { <<a, q, b, q, c, colon, d, colon, e>>, <<a, q, b, colon, c, q, d, colon, e>>,
               <<a, q, b, q, c, colon, d, colon, e, q, a, colon, b>>,
               <<a, q, b>>, <<a, q, b, colon>>, <<a, q, colon, b>>, <<a, q>>,
               <<a, q, b, q, c, colon, d>>, <<a, colon, b>>,
               <<a, q, b, colon, c, q, d, colon, e, q, a, colon, b>>,
               <<a, q, b, colon, Tk("OpenParen"), c, q, d, colon, e, Tk("CloseParen")>>,
               <<a, q, b, colon, Tk("OpenParen"), c, q, d, colon, e, Tk("CloseParen"),
                 q, a, colon, b>>,
               <<a, q, b, colon, c, Tk("Plus"), d, q, e, colon, a, Tk("Star"), b>>,
               <<Tk("OpenParen"), a, q, b, colon, c, q, d, colon, e, Tk("CloseParen"),
                 Tk("Star"), b>>,
               <<a, q, b, colon, Tk("Dash"), c, q, d, colon, e>>,
               <<a, q, b, colon, c, q, d, colon>>, <<a, q, b, colon, c, q>> }

\* up to n prefix operators
RECURSIVE Prefixes(_)
Prefixes(n) ==
    IF n = 0 THEN {<<>>}
    ELSE Prefixes(n - 1) \cup {<<Tk(op)>> \o r : op \in {"Dash", "Not"}, r \in Prefixes(n - 1)}

PostfixOps ==
    { <<Tk("Dot"), IdTk("f")>>, <<Tk("Dot"), Tk("Star")>>,
      <<Tk("OpenBracket"), NumTk("1"), Tk("CloseBracket")>>,
      <<Tk("OpenParen"), Tk("CloseParen")>>,
      <<Tk("OpenParen"), IdTk("y"), Tk("Comma"), NumTk("2"), Tk("CloseParen")>> }

\* up to n postfix operators
RECURSIVE Postfixes(_)
Postfixes(n) ==
    IF n = 0 THEN {<<>>}
    ELSE Postfixes(n - 1) \cup {r \o op : r \in Postfixes(n - 1), op \in PostfixOps}

Primaries == {<<IdTk("x")>>, <<NumTk("1")>>, <<Tk("Nil")>>}

\* prefix operators, a primary, postfix operators; the same as an operand of a
\* binary operator; and postfix operators cut short
UnaryForms ==
    LET u == {pre \o pr \o post :
                pre \in Prefixes(MaxPrefix), pr \in Primaries, post \in Postfixes(MaxPostfix)}
        u1 == {pre \o <<IdTk("x")>> \o post : pre \in Prefixes(1), post \in Postfixes(1)}
    IN  u \cup {w \o <<Tk(op), IdTk("b")>> : w \in u1, op \in {"Star", "Plus", "Lt", "Or"}}
          \cup {<<IdTk("b"), Tk(op)>> \o w : w \in u1, op \in {"Star", "Plus", "Lt", "Or"}}
          \cup { <<IdTk("x"), Tk("Dot")>>, <<IdTk("x"), Tk("Dot"), Tk("Plus")>>,
                 <<IdTk("x"), Tk("OpenBracket"), NumTk("1")>>,
                 <<IdTk("x"), Tk("OpenBracket"), Tk("CloseBracket")>>,
                 <<IdTk("x"), Tk("OpenParen"), IdTk("y"), Tk("Comma"), Tk("CloseParen")>>,
                 <<IdTk("x"), Tk("OpenParen"), IdTk("y")>>, <<Tk("Dash")>>, <<Tk("Not"), Tk("Plus")>> }

\* values of Num tokens: digits as the lexer makes them, up to and over
\* LLONG_MAX, and values only the parse executable's input file can hold
NumValues ==
    { <<"0">>, <<"7">>, <<"0", "0", "7">>, <<"4", "2">>,
      LLongMaxDigits, LLongMinDigits, <<"0">> \o LLongMaxDigits, <<"0", "0">> \o LLongMinDigits,
      SubSeq(LLongMaxDigits, 1, 18) \o <<"6">>, SubSeq(LLongMaxDigits, 1, 18) \o <<"9">>,
      SubSeq(LLongMaxDigits, 1, 18), <<"9">> \o SubSeq(LLongMaxDigits, 2, 19),
      <<"8">> \o SubSeq(LLongMaxDigits, 2, 19), <<"1">> \o LLongMaxDigits,
      <<"9", "3">> \o SubSeq(LLongMaxDigits, 3, 19),
      <<"-", "5">>, <<"-">> \o LLongMinDigits, <<"+", "5">>, <<" ", "5">>, <<"5", "x">>,
      <<"x">>, <<>> }

\* a Num token alone, after a `-', and as an operand
NumForms ==
    UNION { { <<[type |-> "Num", value |-> v]>>,
              <<Tk("Dash"), [type |-> "Num", value |-> v]>>,
              <<IdTk("a"), Tk("Plus"), [type |-> "Num", value |-> v]>>,
              <<Tk("Error"), [type |-> "Num", value |-> v]>> } : v \in NumValues }

ExpInputs ==
    { Indexed(ts, lead) :
        ts \in BinChains(0) \cup UNION {BinChains(n) : n \in 1..MaxOps}
                \cup SelectForms \cup UnaryForms \cup NumForms,
        lead \in {0, 1} }

InitExp ==
    /\ m_tokens \in ExpInputs
    /\ m_current_pos = 0
    /\ program = Program(<<>>, <<>>, <<>>)
    /\ parse_pc = "exp"
    /\ parse_error = <<>>
    /\ exp_ret = <<>>
    /\ LexIdle /\ TokIdle

\* parse_exp returns its ExpPtr
ExpReturns ==
    /\ parse_pc = "exp"
    /\ \E r \in {parse_exp(m_tokens, m_current_pos)} :
          /\ ~Failed(r)
          /\ m_current_pos' = r.pos
          /\ exp_ret' = r.node
          /\ parse_pc' = "done"
    /\ UNCHANGED <<m_tokens, program, parse_error, lexVars, tokVars>>

\* parse_exp is left by an exception
ExpThrows ==
    /\ parse_pc = "exp"
    /\ \E r \in {parse_exp(m_tokens, m_current_pos)} :
          /\ Failed(r)
          /\ m_current_pos' = r.pos
          /\ parse_error' = r.err
          /\ parse_pc' = IF r.err[1].exception = "std::runtime_error"
                         THEN "error" ELSE "terminate"
    /\ UNCHANGED <<m_tokens, program, exp_ret, lexVars, tokVars>>

NextExp == ExpReturns \/ ExpThrows

SpecExp == InitExp /\ [][NextExp]_vars

-----------------------------------------------------------------------------
(* The lex executable prints the tokens, the parse executable reads the line:
   main of src/unnamed/part_006 and main, tokenize_input of src/unnamed/part_000 *)

\* std::string token_type_to_string(const Token& token), as characters
token_type_to_string(b, token) ==
    LET lexeme == Slice(b, token.first, token.last)
    IN  IF token.token_type = "Error"
        THEN (IF lexeme # <<>> /\ lexeme[Len(lexeme)] = "\n"
              THEN <<"E","r","r","o","r","(">> \o lexeme \o <<"\n", ")">>
              ELSE <<"E","r","r","o","r","(">> \o lexeme \o <<")">>)
        ELSE IF token.token_type = "Num" THEN <<"N","u","m","(">> \o lexeme \o <<")">>
        ELSE IF token.token_type = "Id" THEN <<"I","d","(">> \o lexeme \o <<")">>
        ELSE
    CASE token.token_type = "Int" -> <<"I", "n", "t">>
      [] token.token_type = "Struct" -> <<"S", "t", "r", "u", "c", "t">>
      [] token.token_type = "Nil" -> <<"N", "i", "l">>
      [] token.token_type = "Break" -> <<"B", "r", "e", "a", "k">>
      [] token.token_type = "Continue" -> <<"C", "o", "n", "t", "i", "n", "u", "e">>
      [] token.token_type = "Return" -> <<"R", "e", "t", "u", "r", "n">>
      [] token.token_type = "If" -> <<"I", "f">>
      [] token.token_type = "Else" -> <<"E", "l", "s", "e">>
      [] token.token_type = "While" -> <<"W", "h", "i", "l", "e">>
      [] token.token_type = "New" -> <<"N", "e", "w">>
      [] token.token_type = "Let" -> <<"L", "e", "t">>
      [] token.token_type = "Extern" -> <<"E", "x", "t", "e", "r", "n">>
      [] token.token_type = "Fn" -> <<"F", "n">>
      [] token.token_type = "And" -> <<"A", "n", "d">>
      [] token.token_type = "Or" -> <<"O", "r">>
      [] token.token_type = "Not" -> <<"N", "o", "t">>
      [] token.token_type = "Colon" -> <<"C", "o", "l", "o", "n">>
      [] token.token_type = "Semicolon" -> <<"S", "e", "m", "i", "c", "o", "l", "o", "n">>
      [] token.token_type = "Comma" -> <<"C", "o", "m", "m", "a">>
      [] token.token_type = "Arrow" -> <<"A", "r", "r", "o", "w">>
      [] token.token_type = "Ampersand" -> <<"A", "m", "p", "e", "r", "s", "a", "n", "d">>
      [] token.token_type = "Plus" -> <<"P", "l", "u", "s">>
      [] token.token_type = "Dash" -> <<"D", "a", "s", "h">>
      [] token.token_type = "Star" -> <<"S", "t", "a", "r">>
      [] token.token_type = "Slash" -> <<"S", "l", "a", "s", "h">>
      [] token.token_type = "Equal" -> <<"E", "q", "u", "a", "l">>
      [] token.token_type = "NotEq" -> <<"N", "o", "t", "E", "q">>
      [] token.token_type = "Lt" -> <<"L", "t">>
      [] token.token_type = "Lte" -> <<"L", "t", "e">>
      [] token.token_type = "Gt" -> <<"G", "t">>
      [] token.token_type = "Gte" -> <<"G", "t", "e">>
      [] token.token_type = "Dot" -> <<"D", "o", "t">>
      [] token.token_type = "Gets" -> <<"G", "e", "t", "s">>
      [] token.token_type = "OpenParen" -> <<"O", "p", "e", "n", "P", "a", "r", "e", "n">>
      [] token.token_type = "CloseParen" -> <<"C", "l", "o", "s", "e", "P", "a", "r", "e", "n">>
      [] token.token_type = "OpenBracket" -> <<"O", "p", "e", "n", "B", "r", "a", "c", "k", "e", "t">>
      [] token.token_type = "CloseBracket" -> <<"C", "l", "o", "s", "e", "B", "r", "a", "c", "k", "e", "t">>
      [] token.token_type = "OpenBrace" -> <<"O", "p", "e", "n", "B", "r", "a", "c", "e">>
      [] token.token_type = "CloseBrace" -> <<"C", "l", "o", "s", "e", "B", "r", "a", "c", "e">>
      [] token.token_type = "QuestionMark" -> <<"Q", "u", "e", "s", "t", "i", "o", "n", "M", "a", "r", "k">>
      [] OTHER -> <<"U","n","k","n","o","w","n">>

\* the for loop of main with two blanks between the tokens
RECURSIVE print_tokens_from(_, _, _)
print_tokens_two_blanks(b, toks, i) ==
    IF i > Len(toks) THEN <<"\n">>
    ELSE token_type_to_string(b, toks[i])
            \o (IF i # Len(toks) THEN <<" ", " ">> ELSE <<>>)
            \o print_tokens_from(b, toks, i + 1)

\* the for loop of main: the tokens with " " between them, then std::endl
print_tokens_from(b, toks, i) ==
    IF i > Len(toks) THEN <<"\n">>
    ELSE token_type_to_string(b, toks[i])
            \o (IF i # Len(toks) THEN <<" ">> ELSE <<>>)
            \o print_tokens_from(b, toks, i + 1)

print_tokens(b, toks) == print_tokens_from(b, toks, 1)

\* std::getline(file, line): the characters before the first newline
getline(file) ==
    IF \E k \in 1..Len(file) : file[k] = "\n"
    THEN SubSeq(file, 1, find(file, "\n"))
    ELSE file

\* one lexeme of every kind but Error
AllLexemes ==
    { <<"i", "n", "t">>,
      <<"s", "t", "r", "u", "c", "t">>,
      <<"n", "i", "l">>,
      <<"b", "r", "e", "a", "k">>,
      <<"c", "o", "n", "t", "i", "n", "u", "e">>,
      <<"r", "e", "t", "u", "r", "n">>,
      <<"i", "f">>,
      <<"e", "l", "s", "e">>,
      <<"w", "h", "i", "l", "e">>,
      <<"n", "e", "w">>,
      <<"l", "e", "t">>,
      <<"e", "x", "t", "e", "r", "n">>,
      <<"f", "n">>,
      <<"a", "n", "d">>,
      <<"o", "r">>,
      <<"n", "o", "t">>,
      <<":">>,
      <<";">>,
      <<",">>,
      <<"-", ">">>,
      <<"&">>,
      <<"+">>,
      <<"-">>,
      <<"*">>,
      <<"/">>,
      <<"=", "=">>,
      <<"!", "=">>,
      <<"<">>,
      <<"<", "=">>,
      <<">">>,
      <<">", "=">>,
      <<".">>,
      <<"=">>,
      <<"(">>,
      <<")">>,
      <<"[">>,
      <<"]">>,
      <<"{">>,
      <<"}">>,
      <<"?">>,
      <<"x">>,
      <<"a", "_", "1">>,
      <<"i", "f", "f", "y">>,
      <<"0">>,
      <<"4", "2">>,
      <<"0", "0", "7">> }

FewLexemes == { <<"x">>, <<"4","2">>, <<"f","n">>, <<"-",">">>, <<"=">> }

\* lexemes with a blank between them
RECURSIVE Spaced(_)
Spaced(ws) ==
    IF ws = <<>> THEN <<>>
    ELSE IF Len(ws) = 1 THEN ws[1]
    ELSE ws[1] \o <<" ">> \o Spaced(Tail(ws))

\* buffers with Error tokens, whose lexemes hold blanks, newlines and
\* parentheses
ErrorBuffers ==
    { <<"#"," "," ","=">>, <<"#","\n","1">>, <<"x"," ","#","("," ","y">>, <<"/","*">>,
      <<"x"," ","/","/","a">>, <<"$",")","x">> }

RoundTripInputs ==
    AllLexemes \cup { <<"x">> \o w \o <<"1">> : w \in AllLexemes }
       \cup { Spaced(ws) : ws \in SeqsUpTo(FewLexemes, MaxWords) }
       \cup { <<"1","x">>, <<"x","\n","y","/","/","c","\n","1">>, <<" ">> }
       \cup ErrorBuffers

InitRoundTrip ==
    /\ buf \in RoundTripInputs
    /\ curr = 0
    /\ tokens = <<>>
    /\ lex_pc = "loop"
    /\ line = <<>> /\ tok_i = 0 /\ in_tokens = <<>> /\ tok_pc = "wait"
    /\ ParseIdle

\* lex has returned: its main prints the tokens, and main of parse reads the
\* first line of what was printed
PrintLine ==
    /\ lex_pc = "done" /\ tok_pc = "wait"
    /\ line' = getline(print_tokens(buf, tokens))
    /\ tok_pc' = "loop"
    /\ UNCHANGED <<tok_i, in_tokens, lexVars, parseVars>>

NextRoundTrip == Next \/ PrintLine \/ NextTokenize

SpecRoundTrip == InitRoundTrip /\ [][NextRoundTrip]_vars

-----------------------------------------------------------------------------
(* Properties of the place/expression disambiguation of parse_stmt *)

PlaceKinds == {"Id", "Deref", "ArrayAccess", "FieldAccess"}

NotValKinds ==
    {"Num", "NilExp", "UnOp", "BinOp", "Select", "CallExp", "NewSingle", "NewArray"}

\* the Assign nodes of a statement list, those inside if and while blocks included
RECURSIVE AssignsIn(_)
AssignsIn(stmts) ==
    UNION { LET st == stmts[k]
            IN  IF st.kind = "Assign" THEN {st}
                ELSE IF st.kind = "If" THEN AssignsIn(st.tt) \cup AssignsIn(st.ff)
                ELSE IF st.kind = "While" THEN AssignsIn(st.body)
                ELSE {} : k \in 1..Len(stmts) }

\* m_tokens begins like InFunction(body)
HasPrologue ==
    /\ Len(m_tokens) > BodyStart
    /\ \A k \in 1..BodyStart : m_tokens[k].type = InFunction(<<>>)[k].type

\* the function of m_tokens has not been parsed yet
BeforeFunction == parse_pc = "start" \/ (parse_pc = "loop" /\ m_current_pos = 0)

\* cursors at which a statement of the body of InFunction(body) starts: the
\* first statement, the one after it, and the first one inside its block
StatementStarts ==
    IF ~HasPrologue THEN {}
    ELSE {BodyStart}
         \cup (LET st == parse_stmt(m_tokens, BodyStart)
               IN  IF ~Failed(st) /\ st.pos < Len(m_tokens) THEN {st.pos} ELSE {})
         \cup (IF /\ m_tokens[BodyStart + 1].type \in {"If", "While"}
                  /\ Len(m_tokens) > BodyStart + 3
                  /\ m_tokens[BodyStart + 2].type = "Id"
                  /\ m_tokens[BodyStart + 3].type = "OpenBrace"
               THEN {BodyStart + 3} ELSE {})

\* C9: in every Program built by parse, the place of every Assign node is an
\* Id, a Deref, an ArrayAccess or a FieldAccess, never another expression
\* shape and never absent, and it is the place inside the Val that the left
\* expression of the statement parsed to.
C9_AssignPlaceIsPlace ==
    /\ \A k \in 1..Len(program.functions) :
          \A a \in AssignsIn(program.functions[k].stmts) :
             /\ "place" \in DOMAIN a
             /\ "kind" \in DOMAIN a.place
             /\ a.place.kind \in PlaceKinds
    /\ (HasPrologue /\ Len(program.functions) > 0)
          => LET stmts == program.functions[1].stmts
                 left_exp == parse_exp(m_tokens, BodyStart)
             IN  (Len(stmts) > 0 /\ stmts[1].kind = "Assign")
                    => /\ ~Failed(left_exp)
                       /\ left_exp.node = Val(stmts[1].place)

\* a returned Program whose first statement is an assignment and whose second
\* one is an if with an assignment to a field inside
C9_Witness ==
    /\ parse_pc = "done" /\ HasPrologue
    /\ Len(program.functions) = 1
    /\ LET stmts == program.functions[1].stmts
       IN  /\ Len(stmts) = 2
           /\ stmts[1].kind = "Assign"
           /\ stmts[2].kind = "If" /\ Len(stmts[2].tt) = 1
           /\ stmts[2].tt[1].kind = "Assign"
           /\ stmts[2].tt[1].place.kind = "FieldAccess"

\* the statement at cursor p is `lhs = rhs ;' with lhs, rhs and `;' well-formed
\* and lhs a node other than Val
NotAPlaceStatement(p) ==
    LET left_exp == parse_exp(m_tokens, p)
    IN  /\ ~Failed(left_exp)
        /\ left_exp.node.kind \in NotValKinds
        /\ check(m_tokens, left_exp.pos, "Gets")
        /\ LET right_exp == parse_exp(m_tokens, left_exp.pos + 1)
           IN  /\ ~Failed(right_exp)
               /\ check(m_tokens, right_exp.pos, "Semicolon")

\* C10: a statement `lhs = rhs ;' whose lhs, rhs and `;' are well-formed and
\* whose lhs parses to a node other than Val makes parse fail with
\* "parse error: left-hand side of assignment must be a place, starting at
\* token i", i the index carried by the first token of the statement.
C10_NotAPlaceError ==
    \A p \in StatementStarts :
       (NotAPlaceStatement(p) /\ ~BeforeFunction)
          => /\ parse_pc = "error"
             /\ parse_error = error(m_current_pos, NotAPlace(m_tokens[p + 1].index)).err
             /\ Len(program.functions) = 0

\* parse has failed on `x ? x : x = x ;' as the second statement of a body
\* whose tokens carry indices one above their ordinals
C10_Witness ==
    /\ parse_pc = "error" /\ HasPrologue
    /\ m_tokens[1].index = 1
    /\ \E p \in StatementStarts :
          /\ p > BodyStart
          /\ NotAPlaceStatement(p)
          /\ parse_exp(m_tokens, p).node.kind = "Select"
          /\ parse_error[1].at = m_tokens[p + 1].index

-----------------------------------------------------------------------------
(* Properties of the standalone-expression branch of parse_stmt *)

\* the CallStmt nodes of a statement list, those inside if and while blocks included
RECURSIVE CallStmtsIn(_)
CallStmtsIn(stmts) ==
    UNION { LET st == stmts[k]
            IN  IF st.kind = "CallStmt" THEN {st}
                ELSE IF st.kind = "If" THEN CallStmtsIn(st.tt) \cup CallStmtsIn(st.ff)
                ELSE IF st.kind = "While" THEN CallStmtsIn(st.body)
                ELSE {} : k \in 1..Len(stmts) }

\* the statement at cursor p is `exp ;' with exp well-formed
StandaloneStatement(p) ==
    LET left_exp == parse_exp(m_tokens, p)
    IN  /\ ~Failed(left_exp)
        /\ check(m_tokens, left_exp.pos, "Semicolon")

\* C11: a statement `exp ;' is accepted only when exp parses to a CallExp, and
\* the CallStmt then holds the FunCall that parsing exp alone yields (same
\* callee, same arguments in order); for any other exp, parse fails with
\* "parse error: standalone expressions must be function calls, starting at
\* token i", i the index carried by the first token of the statement.
C11_StandaloneIsCall ==
    /\ \A k \in 1..Len(program.functions) :
          \A c \in CallStmtsIn(program.functions[k].stmts) :
             /\ c.fun_call.kind = "FunCall"
             /\ DOMAIN c.fun_call = {"kind", "callee", "args"}
    /\ (HasPrologue /\ Len(program.functions) > 0)
          => LET stmts == program.functions[1].stmts
                 left_exp == parse_exp(m_tokens, BodyStart)
             IN  /\ (Len(stmts) > 0 /\ stmts[1].kind = "CallStmt")
                        => /\ StandaloneStatement(BodyStart)
                           /\ left_exp.node = CallExp(stmts[1].fun_call)
                 /\ (StandaloneStatement(BodyStart) /\ Len(stmts) > 0)
                        => stmts[1] = CallStmt(left_exp.node.fun_call)
    /\ \A p \in StatementStarts :
          (StandaloneStatement(p) /\ ~BeforeFunction
             /\ parse_exp(m_tokens, p).node.kind # "CallExp")
             => /\ parse_pc = "error"
                /\ parse_error = error(m_current_pos, NotACall(m_tokens[p + 1].index)).err
                /\ Len(program.functions) = 0

\* parse has failed on `x . f ;' as the second statement of a body whose
\* tokens carry indices one above their ordinals
C11_Witness ==
    /\ parse_pc = "error" /\ HasPrologue
    /\ m_tokens[1].index = 1
    /\ \E p \in StatementStarts :
          /\ p > BodyStart
          /\ StandaloneStatement(p)
          /\ parse_exp(m_tokens, p).node.kind = "Val"
          /\ parse_exp(m_tokens, p).node.place.kind = "FieldAccess"
          /\ parse_error[1].at = m_tokens[p + 1].index
          /\ parse_error[1].msg = NotACall(0).msg

\* a returned Program whose only statement is a call with two arguments
C11_CallAccepted ==
    /\ parse_pc = "done" /\ HasPrologue
    /\ Len(program.functions) = 1
    /\ LET stmts == program.functions[1].stmts
       IN  /\ Len(stmts) = 1
           /\ stmts[1].kind = "CallStmt"
           /\ Len(stmts[1].fun_call.args) = 2

-----------------------------------------------------------------------------
(* Properties of parse_exp on the tokens of one expression *)

TypesOf(ts) == [k \in 1..Len(ts) |-> ts[k].type]

\* the call of parse_exp has returned or thrown
ExpCalled == parse_pc \in {"done", "error", "terminate"} /\ m_tokens # <<>>

\* the Id expression of the token at ordinal k (from 1)
IdAt(k) == Val(Id(m_tokens[k].value))

\* the Select met first on the way down the guards of Select n
RECURSIVE InnermostGuard(_)
InnermostGuard(n) ==
    IF n.guard.kind = "Select" THEN InnermostGuard(n.guard) ELSE n

\* C12: in a selection g ? t : f the true arm is parsed by parse_exp and the
\* false arm by parse_exp1: the first selection of an expression has as its
\* arms what parse_exp yields after `?' and what parse_exp1 yields after `:',
\* and `a ? b ? c : d : e' parses to Select(a, Select(b, c, d), e).
C12_SelectArms ==
    ExpCalled =>
       /\ TypesOf(m_tokens) = <<"Id", "QuestionMark", "Id", "QuestionMark", "Id", "Colon",
                                "Id", "Colon", "Id">>
             => /\ parse_pc = "done"
                /\ m_current_pos = 9
                /\ exp_ret = Select(IdAt(1), Select(IdAt(3), IdAt(5), IdAt(7)), IdAt(9))
       /\ LET g == parse_exp1(m_tokens, 0)
              tt == parse_exp(m_tokens, g.pos + 1)
              ff == parse_exp1(m_tokens, tt.pos + 1)
          IN  (/\ ~Failed(g) /\ check(m_tokens, g.pos, "QuestionMark")
               /\ ~Failed(tt) /\ check(m_tokens, tt.pos, "Colon")
               /\ ~Failed(ff) /\ parse_pc = "done")
                 => /\ exp_ret.kind = "Select"
                    /\ InnermostGuard(exp_ret) = Select(g.node, tt.node, ff.node)

\* parse_exp has returned from `a ? b : c ? d : e', whose first false arm is c
C12_Witness ==
    /\ parse_pc = "done"
    /\ TypesOf(m_tokens) = <<"Id", "QuestionMark", "Id", "Colon", "Id", "QuestionMark",
                             "Id", "Colon", "Id">>
    /\ exp_ret = Select(Select(IdAt(1), IdAt(3), IdAt(5)), IdAt(7), IdAt(9))

\* m_tokens is a row of Id operands with a binary operator between each two
IsChain(lo, hi) ==
    /\ lo <= hi /\ (hi - lo) % 2 = 0
    /\ \A k \in lo..hi :
          IF (k - lo) % 2 = 0 THEN m_tokens[k].type = "Id"
          ELSE m_tokens[k].type \in BinTokens

\* the BinaryOp a binary operator token stands for
OpOf(type) ==
    CASE type = "And" -> "And" [] type = "Or" -> "Or"
      [] type = "Equal" -> "Eq" [] type = "NotEq" -> "NotEq"
      [] type = "Lt" -> "Lt" [] type = "Lte" -> "Lte"
      [] type = "Gt" -> "Gt" [] type = "Gte" -> "Gte"
      [] type = "Plus" -> "Add" [] type = "Dash" -> "Sub"
      [] type = "Star" -> "Mul" [] type = "Slash" -> "Div"

\* the level of the grammar a binary operator token belongs to
LevelOf(type) ==
    IF type \in {"And", "Or"} THEN 1
    ELSE IF type \in {"Plus", "Dash"} THEN 3
    ELSE IF type \in {"Star", "Slash"} THEN 4
    ELSE 2

\* the tree the grammar gives the row m_tokens[lo..hi]: it is split at the
\* operator that binds least, the first one of level 1 (right-associative)
\* and the last one of any other level (left-associative)
RECURSIVE ChainTree(_, _)
ChainTree(lo, hi) ==
    IF lo = hi THEN IdAt(lo)
    ELSE LET ops == {k \in lo..hi : (k - lo) % 2 = 1}
             least == CHOOSE l \in 1..4 :
                         /\ \E k \in ops : LevelOf(m_tokens[k].type) = l
                         /\ \A k \in ops : LevelOf(m_tokens[k].type) >= l
             at == {k \in ops : LevelOf(m_tokens[k].type) = least}
             k == IF least = 1 THEN CHOOSE j \in at : \A i \in at : j <= i
                  ELSE CHOOSE j \in at : \A i \in at : j >= i
         IN  BinOp(OpOf(m_tokens[k].type), ChainTree(lo, k - 1), ChainTree(k + 1, hi))

IsAndOrToken(k) == m_tokens[k].type \in {"And", "Or"}

\* the ordinals of the `and' and `or' tokens of m_tokens, in order
AndOrAt == SelectSeq([k \in 1..Len(m_tokens) |-> k], IsAndOrToken)

IsAndOr(n) == n.kind = "BinOp" /\ n.op \in {"And", "Or"}

\* n is op_j(e_j, op_(j+1)(e_(j+1), ...)) for the `and'/`or' tokens from the
\* j-th on, no e_i being an `and' or an `or' itself
RECURSIVE RightNested(_, _)
RightNested(n, j) ==
    IF j > Len(AndOrAt) THEN ~IsAndOr(n)
    ELSE /\ IsAndOr(n)
         /\ n.op = OpOf(m_tokens[AndOrAt[j]].type)
         /\ ~IsAndOr(n.left)
         /\ RightNested(n.right, j + 1)

\* C13: `and' and `or' share one level and are right-associative: a row
\* e1 op1 e2 op2 e3 ... with op_i in {and, or} parses to
\* BinOp(op1, e1, BinOp(op2, e2, ...)); `a and b or c' is And(a, Or(b, c)) and
\* `a or b and c' is Or(a, And(b, c)).
C13_AndOrRightAssociative ==
    (ExpCalled /\ IsChain(1, Len(m_tokens))) =>
       /\ parse_pc = "done" /\ m_current_pos = Len(m_tokens)
       /\ RightNested(exp_ret, 1)
       /\ TypesOf(m_tokens) = <<"Id", "And", "Id", "Or", "Id">>
             => exp_ret = BinOp("And", IdAt(1), BinOp("Or", IdAt(3), IdAt(5)))
       /\ TypesOf(m_tokens) = <<"Id", "Or", "Id", "And", "Id">>
             => exp_ret = BinOp("Or", IdAt(1), BinOp("And", IdAt(3), IdAt(5)))

\* parse_exp has returned And(a, Or(b, c)) from `a and b or c'
C13_Witness ==
    /\ parse_pc = "done"
    /\ TypesOf(m_tokens) = <<"Id", "And", "Id", "Or", "Id">>
    /\ exp_ret = BinOp("And", IdAt(1), BinOp("Or", IdAt(3), IdAt(5)))

\* the ordinals of the `?' and `:' tokens of m_tokens
QuestionMarks == {k \in 1..Len(m_tokens) : m_tokens[k].type = "QuestionMark"}
Colons == {k \in 1..Len(m_tokens) : m_tokens[k].type = "Colon"}

\* C14: binary operators parse to the tree of the grammar's levels: `*' `/'
\* bind tighter than `+' `-', these tighter than the six comparisons, these
\* tighter than `and' `or', these tighter than `?:'; a row x op y op z of one
\* of the comparison, additive and multiplicative levels parses to
\* BinOp(op, BinOp(op, x, y), z).
C14_BinaryLevels ==
    ExpCalled =>
       /\ IsChain(1, Len(m_tokens))
             => /\ parse_pc = "done" /\ m_current_pos = Len(m_tokens)
                /\ exp_ret = ChainTree(1, Len(m_tokens))
       /\ (/\ Len(m_tokens) = 5 /\ IsChain(1, 5)
           /\ LevelOf(m_tokens[2].type) = LevelOf(m_tokens[4].type)
           /\ LevelOf(m_tokens[2].type) > 1)
             => exp_ret = BinOp(OpOf(m_tokens[4].type),
                                BinOp(OpOf(m_tokens[2].type), IdAt(1), IdAt(3)), IdAt(5))
       /\ \A q \in QuestionMarks : \A c \in Colons :
             (/\ QuestionMarks = {q} /\ Colons = {c}
              /\ IsChain(1, q - 1) /\ IsChain(q + 1, c - 1) /\ IsChain(c + 1, Len(m_tokens)))
                => /\ parse_pc = "done" /\ m_current_pos = Len(m_tokens)
                   /\ exp_ret = Select(ChainTree(1, q - 1), ChainTree(q + 1, c - 1),
                                       ChainTree(c + 1, Len(m_tokens)))

\* parse_exp has returned Lt(a, Sub(b, c)) from `a < b - c'
C14_Witness ==
    /\ parse_pc = "done"
    /\ TypesOf(m_tokens) = <<"Id", "Lt", "Id", "Dash", "Id">>
    /\ exp_ret = BinOp("Lt", IdAt(1), BinOp("Sub", IdAt(3), IdAt(5)))

\* the number of prefix operator tokens m_tokens begins with
RECURSIVE LeadingPrefixes(_)
LeadingPrefixes(k) ==
    IF k < Len(m_tokens) /\ m_tokens[k + 1].type \in {"Dash", "Not"}
    THEN LeadingPrefixes(k + 1) ELSE k

\* the prefix operators of ordinals j..k around n, the one of ordinal j outermost
RECURSIVE PrefixNest(_, _, _)
PrefixNest(j, k, n) ==
    IF j > k THEN n
    ELSE UnOp(IF m_tokens[j].type = "Dash" THEN "Neg" ELSE "Not", PrefixNest(j + 1, k, n))

\* C15: prefix `-' and `not' stack over a postfix chain: k prefix operators
\* before an exp6 parse to k nested UnOp nodes in source order, the first one
\* outermost, around the whole exp6; `- - not x' is
\* UnOp(Neg, UnOp(Neg, UnOp(Not, Val(Id x)))); a prefix operator binds tighter
\* than every binary operator and looser than `.', `[...]' and `(...)'.
C15_PrefixOperators ==
    ExpCalled =>
       LET k == LeadingPrefixes(0)
           e6 == parse_exp6(m_tokens, k)
           e5 == parse_exp5(m_tokens, 0)
       IN  /\ ~Failed(e6)
                 => /\ e5 = Ok(e6.pos, PrefixNest(1, k, e6.node))
                    /\ e6.pos = Len(m_tokens)
                          => /\ parse_pc = "done"
                             /\ exp_ret = PrefixNest(1, k, e6.node)
                    /\ (/\ e6.pos = Len(m_tokens) - 2
                        /\ m_tokens[e6.pos + 1].type \in BinTokens
                        /\ m_tokens[e6.pos + 2].type = "Id")
                          => /\ parse_pc = "done"
                             /\ exp_ret = BinOp(OpOf(m_tokens[e6.pos + 1].type),
                                                PrefixNest(1, k, e6.node), IdAt(e6.pos + 2))
           /\ TypesOf(m_tokens) = <<"Dash", "Dash", "Not", "Id">>
                 => exp_ret = UnOp("Neg", UnOp("Neg", UnOp("Not", IdAt(4))))
           /\ TypesOf(m_tokens) = <<"Not", "Id", "Dot", "Id", "Star", "Id">>
                 => exp_ret = BinOp("Mul",
                                    UnOp("Not", Val(FieldAccess(IdAt(2), m_tokens[4].value))),
                                    IdAt(6))

\* parse_exp has returned from `- - not x'
C15_Witness ==
    /\ parse_pc = "done"
    /\ TypesOf(m_tokens) = <<"Dash", "Dash", "Not", "Id">>
    /\ exp_ret = UnOp("Neg", UnOp("Neg", UnOp("Not", IdAt(4))))

\* parse_exp has returned from `not x . f * b'
C15_BindsTighter ==
    /\ parse_pc = "done"
    /\ TypesOf(m_tokens) = <<"Not", "Id", "Dot", "Id", "Star", "Id">>
    /\ exp_ret.kind = "BinOp"

\* the expression of the one-token operand at ordinal k
AtomAt(k) ==
    IF m_tokens[k].type = "Id" THEN IdAt(k)
    ELSE IF m_tokens[k].type = "Nil" THEN NilExp
    ELSE Num([neg |-> FALSE, digits |-> m_tokens[k].value])

IsAtomAt(k) ==
    /\ k <= Len(m_tokens)
    /\ \/ m_tokens[k].type \in {"Id", "Nil"}
       \/ /\ m_tokens[k].type = "Num"
          /\ m_tokens[k].value \in {<<"1">>, <<"2">>}

TypeIs(k, type) == k <= Len(m_tokens) /\ m_tokens[k].type = type

\* the tokens from ordinal k on are postfix operators with one-token operands:
\* `. id', `. *', `[ e ]', `( )' and `( e , e )'
RECURSIVE PostfixesFrom(_)
PostfixesFrom(k) ==
    \/ k = Len(m_tokens) + 1
    \/ TypeIs(k, "Dot") /\ (TypeIs(k + 1, "Id") \/ TypeIs(k + 1, "Star"))
          /\ PostfixesFrom(k + 2)
    \/ TypeIs(k, "OpenBracket") /\ IsAtomAt(k + 1) /\ TypeIs(k + 2, "CloseBracket")
          /\ PostfixesFrom(k + 3)
    \/ TypeIs(k, "OpenParen") /\ TypeIs(k + 1, "CloseParen") /\ PostfixesFrom(k + 2)
    \/ TypeIs(k, "OpenParen") /\ IsAtomAt(k + 1) /\ TypeIs(k + 2, "Comma")
          /\ IsAtomAt(k + 3) /\ TypeIs(k + 4, "CloseParen") /\ PostfixesFrom(k + 5)

\* the postfix operators from ordinal k on applied, left to right, to prev
RECURSIVE PostfixTree(_, _)
PostfixTree(prev, k) ==
    IF k > Len(m_tokens) THEN prev
    ELSE IF TypeIs(k, "Dot") /\ TypeIs(k + 1, "Id")
    THEN PostfixTree(Val(FieldAccess(prev, m_tokens[k + 1].value)), k + 2)
    ELSE IF TypeIs(k, "Dot")
    THEN PostfixTree(Val(Deref(prev)), k + 2)
    ELSE IF TypeIs(k, "OpenBracket")
    THEN PostfixTree(Val(ArrayAccess(prev, AtomAt(k + 1))), k + 3)
    ELSE IF TypeIs(k + 1, "CloseParen")
    THEN PostfixTree(CallExp(FunCall(prev, <<>>)), k + 2)
    ELSE PostfixTree(CallExp(FunCall(prev, <<AtomAt(k + 1), AtomAt(k + 3)>>)), k + 5)

\* C16: postfix operators apply left to right to the expression built so
\* far, in any interleaving: `[e]' gives Val(ArrayAccess(prev, e)), `.id'
\* Val(FieldAccess(prev, id)), `.*' Val(Deref(prev)) and `(args)'
\* CallExp(FunCall(prev, args)); the expression is a Val exactly when the
\* last postfix operator is not a call, or there is none and the primary is
\* an Id.
C16_PostfixChain ==
    (ExpCalled /\ IsAtomAt(1) /\ PostfixesFrom(2)) =>
       /\ parse_pc = "done" /\ m_current_pos = Len(m_tokens)
       /\ exp_ret = PostfixTree(AtomAt(1), 2)
       /\ exp_ret.kind = "Val"
             <=> \/ Len(m_tokens) = 1 /\ m_tokens[1].type = "Id"
                 \/ Len(m_tokens) > 1 /\ m_tokens[Len(m_tokens)].type # "CloseParen"

\* parse_exp has returned from `x ( y , 2 ) . f': a field of the result of a call
C16_Witness ==
    /\ parse_pc = "done"
    /\ TypesOf(m_tokens) = <<"Id", "OpenParen", "Id", "Comma", "Num", "CloseParen", "Dot", "Id">>
    /\ exp_ret = Val(FieldAccess(CallExp(FunCall(IdAt(1), <<IdAt(3), AtomAt(5)>>)),
                                 m_tokens[8].value))

DecimalDigits == {"0", "1", "2", "3", "4", "5", "6", "7", "8", "9"}

\* a Num lexeme as the lexer makes it: one decimal digit or more
IsNumLexeme(v) == v # <<>> /\ \A k \in 1..Len(v) : v[k] \in DecimalDigits

\* d with zeros before it up to the length n
RECURSIVE PadTo(_, _)
PadTo(d, n) == IF Len(d) >= n THEN d ELSE PadTo(<<"0">> \o d, n)

\* the number the digits a denote is at most the one the digits b denote
AtMost(a, b) ==
    LET n == IF Len(a) > Len(b) THEN Len(a) ELSE Len(b)
        x == PadTo(a, n)
        y == PadTo(b, n)
    IN  \/ x = y
        \/ \E k \in 1..n :
              /\ \A j \in 1..(k - 1) : x[j] = y[j]
              /\ DigitValue(x[k]) < DigitValue(y[k])

\* the digits of 2^63 - 1
I64Max ==
    <<"9","2","2","3","3","7","2","0","3","6","8","5","4","7","7","5","8","0","7">>

\* the Num nodes of an expression or a place
RECURSIVE NumsIn(_)
NumsIn(n) ==
    CASE n.kind = "Num" -> {n}
      [] n.kind = "Val" -> NumsIn(n.place)
      [] n.kind = "Deref" -> NumsIn(n.exp)
      [] n.kind = "ArrayAccess" -> NumsIn(n.array) \cup NumsIn(n.index)
      [] n.kind = "FieldAccess" -> NumsIn(n.ptr)
      [] n.kind = "UnOp" -> NumsIn(n.exp)
      [] n.kind = "BinOp" -> NumsIn(n.left) \cup NumsIn(n.right)
      [] n.kind = "Select" -> NumsIn(n.guard) \cup NumsIn(n.tt) \cup NumsIn(n.ff)
      [] n.kind = "NewArray" -> NumsIn(n.size)
      [] n.kind = "CallExp" ->
            NumsIn(n.fun_call.callee)
               \cup UNION {NumsIn(n.fun_call.args[k]) : k \in 1..Len(n.fun_call.args)}
      [] OTHER -> {}

\* every Num token of m_tokens holds a lexeme the lexer can make
LexerNums ==
    \A k \in 1..Len(m_tokens) : m_tokens[k].type = "Num" => IsNumLexeme(m_tokens[k].value)

\* C17: a Num token whose digits denote v parses to Num(v) when
\* v <= 9223372036854775807 and fails with "parse error: invalid i64 number
\* <lexeme> at token i", i the index of the token, when
\* v >= 9223372036854775808; every Num node built from Num tokens of digits
\* has a value in [0, 2^63 - 1], and `- v' is UnOp(Neg, Num(v)), never a
\* negative Num.
C17_NumRange ==
    (ExpCalled /\ LexerNums) =>
       /\ \A k \in 1..2 :
             (Len(m_tokens) = k /\ m_tokens[k].type = "Num"
                /\ (k = 2 => m_tokens[1].type = "Dash"))
                => LET tok == m_tokens[k]
                       num == Num([neg |-> FALSE, digits |-> StripZeros(tok.value)])
                   IN  IF AtMost(tok.value, I64Max)
                       THEN /\ parse_pc = "done"
                            /\ exp_ret = IF k = 1 THEN num ELSE UnOp("Neg", num)
                       ELSE /\ parse_pc = "error"
                            /\ parse_error = error(k, InvalidI64(tok.value, tok.index)).err
                            /\ m_current_pos = k
       /\ parse_pc = "done"
             => \A n \in NumsIn(exp_ret) :
                   /\ ~n.value.neg
                   /\ AtMost(n.value.digits, I64Max)
                   /\ IsNumLexeme(n.value.digits)

\* parse_exp has failed on the Num token 9223372036854775808 carrying index 1
C17_Witness ==
    /\ parse_pc = "error"
    /\ Len(m_tokens) = 1 /\ m_tokens[1].type = "Num"
    /\ m_tokens[1].value = LLongMinDigits
    /\ m_tokens[1].index = 1
    /\ parse_error[1].msg = "invalid i64 number"
    /\ parse_error[1].at = 1

\* parse_exp has returned Num(9223372036854775807), from a lexeme with a zero before it
C17_MaxAccepted ==
    /\ parse_pc = "done"
    /\ Len(m_tokens) = 1 /\ m_tokens[1].value = <<"0">> \o I64Max
    /\ exp_ret = Num([neg |-> FALSE, digits |-> I64Max])

-----------------------------------------------------------------------------
(* Properties of the errors of peek and consume *)

\* the tokens ts without the indices tokenize_input gave them
Unindexed(ts) == [k \in 1..Len(ts) |-> [type |-> ts[k].type, value |-> ts[k].value]]

\* parse_program has returned or thrown
ParseEnded == parse_pc \in {"done", "error", "terminate"}

\* m_tokens is a well-formed program cut short before its last token
CutShort ==
    \E w \in WholePrograms :
       /\ Len(m_tokens) < Len(w)
       /\ Unindexed(m_tokens) = SubSeq(w, 1, Len(m_tokens))

\* the error of parse is one that peek or consume raise for a token they cannot
\* accept
TokenError ==
    /\ parse_pc = "error"
    /\ parse_error[1].msg \in {UnexpectedToken(0).msg, EndOfStream.msg}

\* C18: an error raised because the parser needs a token it cannot accept is
\* exactly "parse error: unexpected end of token stream" when the cursor is at
\* the end of the stream, and otherwise "parse error: unexpected token at token
\* i" with i the index carried by the token at the cursor; a well-formed program
\* cut short ends parse with the former or, when the cut falls between
\* definitions, with a Program, and never with an "unexpected token" message.
C18_TokenErrors ==
    /\ TokenError =>
          IF is_at_end(m_tokens, m_current_pos)
          THEN parse_error = error(m_current_pos, EndOfStream).err
          ELSE parse_error =
                 error(m_current_pos, UnexpectedToken(m_tokens[m_current_pos + 1].index)).err
    /\ (ParseEnded /\ CutShort) =>
          \/ parse_pc = "done"
          \/ /\ parse_error = error(m_current_pos, EndOfStream).err
             /\ m_current_pos = Len(m_tokens)

\* parse has failed at an Error token in the middle of a program, whose index
\* is one above its ordinal
C18_Witness ==
    /\ TokenError
    /\ m_current_pos > BodyStart /\ m_current_pos + 1 < Len(m_tokens)
    /\ m_tokens[m_current_pos + 1].type = "Error"
    /\ m_tokens[m_current_pos + 1].index = m_current_pos + 1
    /\ parse_error[1].at = m_current_pos + 1

\* parse has failed at the end of a program cut short inside the condition of a
\* while statement
C18_CutShortInConstruct ==
    /\ parse_pc = "error" /\ CutShort
    /\ m_current_pos = Len(m_tokens) /\ m_current_pos > BodyStart
    /\ m_tokens[m_current_pos].type = "Not"
    /\ parse_error[1].msg = EndOfStream.msg

\* a well-formed program parses
C18_WholeParses ==
    /\ parse_pc = "done" /\ Unindexed(m_tokens) \in WholePrograms
    /\ Len(program.structs) = 1 /\ Len(program.externs) = 1 /\ Len(program.functions) = 1

-----------------------------------------------------------------------------
(* Properties of the outcome of parse *)

\* e is what Parser::error throws for one of the five messages, about a token of
\* m_tokens where the message cites one
IsListedError(e) ==
    \/ e = error(0, EndOfStream).err[1]
    \/ \E k \in 1..Len(m_tokens) :
          \/ e = error(0, UnexpectedToken(m_tokens[k].index)).err[1]
          \/ e = error(0, NotAPlace(m_tokens[k].index)).err[1]
          \/ e = error(0, NotACall(m_tokens[k].index)).err[1]
          \/ /\ m_tokens[k].type = "Num"
             /\ e = error(0, InvalidI64(m_tokens[k].value, m_tokens[k].index)).err[1]

\* parse is running, has returned a Program with the cursor at the end and no
\* error, or has thrown one listed error
OneOutcome ==
    /\ parse_pc \in {"start", "loop", "done", "error"}
    /\ parse_pc \in {"start", "loop", "done"} => parse_error = <<>>
    /\ parse_pc = "done" => m_current_pos = Len(m_tokens)
    /\ parse_pc = "error" => Len(parse_error) = 1 /\ IsListedError(parse_error[1])

\* a step that raises an error adds no node and ends parse, and no step follows
\* an error or a returned Program
FirstErrorStops ==
    /\ (parse_error = <<>> /\ parse_error' # <<>>) =>
           (program' = program /\ parse_pc' = "error")
    /\ (parse_error # <<>> \/ parse_pc = "done") =>
           UNCHANGED <<m_current_pos, program, parse_error, parse_pc>>

C19_InvalidI64 ==
    /\ parse_pc = "error" /\ HasPrologue
    /\ m_current_pos = BodyStart + 3 /\ m_current_pos < Len(m_tokens)
    /\ parse_error = error(m_current_pos,
                           InvalidI64(LLongMinDigits, m_tokens[m_current_pos].index)).err

-----------------------------------------------------------------------------
(* Properties of parse on streams with Error tokens *)

ErrorTokens == {k \in 1..Len(m_tokens) : m_tokens[k].type = "Error"}

\* the ordinal (from 1) of the first Error token of m_tokens
FirstErrorToken == CHOOSE k \in ErrorTokens : \A j \in ErrorTokens : k <= j

\* the error of parse belongs to the construct that ends just before token e:
\* the place or call check of the statement whose `;' it is, or the range
\* check of the Num token it is
EarlierError(e) ==
    /\ e > 1
    /\ \/ /\ m_tokens[e - 1].type = "Semicolon"
          /\ \E k \in 1..(e - 1) :
                parse_error \in {error(m_current_pos, NotAPlace(m_tokens[k].index)).err,
                                 error(m_current_pos, NotACall(m_tokens[k].index)).err}
       \/ /\ m_tokens[e - 1].type = "Num"
          /\ parse_error = error(m_current_pos,
                                 InvalidI64(m_tokens[e - 1].value, m_tokens[e - 1].index)).err

\* C20: a token stream with an Error token never parses to a Program and the
\* cursor never passes its first Error token; parse ends with an error, and
\* when it ends with the cursor at that token the error is "parse error:
\* unexpected token at token i", i the index carried by that token, unless it
\* is the error of the construct that ends just before the token.
C20_ErrorTokenRejected ==
    ErrorTokens # {} =>
       /\ parse_pc # "done"
       /\ m_current_pos < FirstErrorToken
       /\ ParseEnded => parse_pc = "error"
       /\ (ParseEnded /\ m_current_pos = FirstErrorToken - 1) =>
             \/ parse_error =
                   error(m_current_pos, UnexpectedToken(m_tokens[FirstErrorToken].index)).err
             \/ EarlierError(FirstErrorToken)

\* parse has failed at an Error token that stands for the right operand of `+'
\* and carries an index one above its ordinal
C20_Witness ==
    /\ parse_pc = "error" /\ ErrorTokens # {}
    /\ m_current_pos = FirstErrorToken - 1 /\ m_current_pos > BodyStart
    /\ m_tokens[m_current_pos].type = "Plus"
    /\ m_tokens[FirstErrorToken].index = FirstErrorToken
    /\ parse_error = error(m_current_pos, UnexpectedToken(FirstErrorToken)).err

\* parse has failed with the cursor at an Error token on the statement `x ;'
\* that ends before it
C20_EarlierStatement ==
    /\ parse_pc = "error" /\ ErrorTokens # {}
    /\ m_current_pos = FirstErrorToken - 1
    /\ EarlierError(FirstErrorToken)
    /\ parse_error[1].msg = NotACall(0).msg

\* parse has failed before its cursor came to the Error token
C20_NeverReached ==
    /\ parse_pc = "error" /\ ErrorTokens # {}
    /\ m_current_pos < FirstErrorToken - 1

-----------------------------------------------------------------------------
(* Properties of the LIST sites *)

\* the node of the k-th element of a list at `site'
ElemNode(site, k) ==
    LET type == IF k % 2 = 1 THEN IntType ELSE PtrType(IntType)
    IN  IF site = "args" THEN Val(Id(<<ElemNames[k]>>))
        ELSE IF site = "types"
        THEN (IF k % 2 = 1 THEN IntType ELSE StructType(<<ElemNames[k]>>))
        ELSE Decl(<<ElemNames[k]>>, type)

\* the vector of the returned program that holds the list at `site'
ListOf(site) ==
    CASE site = "params" -> program.functions[1].params
      [] site = "lets" -> program.functions[1].locals
      [] site = "fields" -> program.structs[1].fields
      [] site = "args" -> program.functions[1].stmts[1].fun_call.args
      [] site = "types" -> program.externs[1].type.param_types

\* the cursor of the token that a flawed list is refused at: the leading
\* comma, the token after the trailing comma, the second comma of two
RefusedAt(site, n, flaw) ==
    Len(ListBefore(site)) +
       CASE flaw = "leading" -> 0
         [] flaw = "trailing" -> Len(Joined(site, n)) + 1
         [] flaw = "double" -> Len(Joined(site, n - 1)) + 1

\* parse has ended on the program with a list of n elements at `site'
ListParsed(site, n, flaw) ==
    ParseEnded /\ Unindexed(m_tokens) = ListProgram(site, n, flaw)

\* C21: at each LIST site (parameters, let, struct fields, call arguments,
\* function-type parameters) the empty list and X (`,' X)* are accepted and the
\* elements are stored in source order; a list with a comma before its first
\* element, after its last one or twice in a row fails with "parse error:
\* unexpected token at token i", i the index of the comma, or of the token after
\* the comma, that stands where an X has to.
C21_Lists ==
    (ParseEnded /\ Unindexed(m_tokens) \in ListPrograms) =>
    \A site \in ListSites : \A flaw \in ListFlaws : \A n \in FlawSizes(flaw) :
       ListParsed(site, n, flaw) =>
          IF flaw = "none"
          THEN /\ parse_pc = "done"
               /\ ListOf(site) = [k \in 1..n |-> ElemNode(site, k)]
          ELSE /\ parse_pc = "error"
               /\ m_current_pos = RefusedAt(site, n, flaw)
               /\ parse_error =
                     error(m_current_pos,
                           UnexpectedToken(m_tokens[m_current_pos + 1].index)).err

\* parse has returned the program of `fn f ( a : int , b : & int , c : int )
\* -> int { }' with the three parameters in that order
C21_Witness ==
    /\ ListParsed("params", 3, "none") /\ parse_pc = "done"
    /\ Len(program.functions[1].params) = 3
    /\ program.functions[1].params[1].name = <<"a">>
    /\ program.functions[1].params[3].name = <<"c">>

\* parse has returned for the empty lists `fn f ( ) -> int { }', `struct S { }',
\* a call `g ( )', `let ;' and `extern g : ( ) -> int ;'
C21_EmptyLists ==
    \E site \in ListSites : ListParsed(site, 0, "none") /\ parse_pc = "done"

\* parse has failed at the `)' after the trailing comma of a call
C21_TrailingComma ==
    /\ ListParsed("args", 2, "trailing") /\ parse_pc = "error"
    /\ m_tokens[m_current_pos + 1].type = "CloseParen"
    /\ m_tokens[m_current_pos].type = "Comma"

-----------------------------------------------------------------------------
(* Properties of parse_type and parse_funtype *)

\* m_tokens is `struct S { x : ... }'
IsTypeField ==
    /\ Len(m_tokens) > Len(FieldBefore) + 1
    /\ SubSeq(Unindexed(m_tokens), 1, Len(FieldBefore)) = FieldBefore
    /\ m_tokens[Len(m_tokens)].type = "CloseBrace"

\* the tokens between `struct S { x :' and the last `}'
TypeGiven == SubSeq(Unindexed(m_tokens), Len(FieldBefore) + 1, Len(m_tokens) - 1)

\* the kinds of the nodes of a type
RECURSIVE KindsIn(_)
KindsIn(ty) ==
    {ty.kind} \cup
       CASE ty.kind = "PtrType" -> KindsIn(ty.base_type)
         [] ty.kind = "ArrayType" -> KindsIn(ty.element_type)
         [] ty.kind = "FnType" ->
               KindsIn(ty.return_type)
                  \cup UNION {KindsIn(ty.param_types[k]) : k \in 1..Len(ty.param_types)}
         [] OTHER -> {}

\* the types of the declarations of the program: fields, externs, parameters,
\* locals and return types
DeclaredTypes ==
    UNION ({ {d.fields[k].type : k \in 1..Len(d.fields)}
              : d \in {program.structs[j] : j \in 1..Len(program.structs)} }
           \cup { {d.type} : d \in {program.externs[j] : j \in 1..Len(program.externs)} }
           \cup { {d.rettype} \cup {d.params[k].type : k \in 1..Len(d.params)}
                             \cup {d.locals[k].type : k \in 1..Len(d.locals)}
                   : d \in {program.functions[j] : j \in 1..Len(program.functions)} })

\* C22: parse_type returns IntType for `int', StructType(name) for an Id,
\* PtrType(T) for `&' type, ArrayType(T) for `[' type `]' and, through
\* parse_funtype, FnType(params, ret) for `(' LIST(type) `)' `->' type; a token
\* that is none of Int, Id, Ampersand, OpenBracket, OpenParen where a type has
\* to begin fails with "parse error: unexpected token at token i", i the index
\* of that token; no type of the program has the kind NilType.
C22_Types ==
    /\ (ParseEnded /\ IsTypeField) =>
          /\ \A ty \in AllTypeTrees :
                TypeGiven = TypeTokens(ty) =>
                   /\ parse_pc = "done"
                   /\ program.structs[1].fields[1].type = ty
          /\ TypeGiven \in BadTypes =>
                /\ parse_pc = "error"
                /\ m_current_pos = Len(m_tokens) - 2
                /\ parse_error =
                      error(m_current_pos,
                            UnexpectedToken(m_tokens[m_current_pos + 1].index)).err
    /\ \A ty \in DeclaredTypes :
          KindsIn(ty) \subseteq {"IntType", "StructType", "PtrType", "ArrayType", "FnType"}

\* parse has returned FnType(<<IntType, PtrType(StructType(S))>>, StructType(S))
\* for `( int , & S ) -> S'
C22_Witness ==
    /\ parse_pc = "done" /\ IsTypeField
    /\ TypeGiven = <<Tk("OpenParen"), Tk("Int"), Tk("Comma"), Tk("Ampersand"), IdTk("S"),
                     Tk("CloseParen"), Tk("Arrow"), IdTk("S")>>
    /\ program.structs[1].fields[1].type =
          FnType(<<IntType, PtrType(StructType(<<"S">>))>>, StructType(<<"S">>))

\* parse has failed at `nil' given for the element type of an array type
C22_NilRefused ==
    /\ parse_pc = "error" /\ IsTypeField
    /\ TypeGiven = <<Tk("OpenBracket"), Tk("Nil")>>
    /\ m_tokens[m_current_pos + 1].type = "Nil"
    /\ parse_error[1].msg = UnexpectedToken(0).msg

-----------------------------------------------------------------------------
(* Properties of lex under added whitespace *)

\* the (kind, lexeme) pairs of the tokens toks of the buffer b
Pairs(b, toks) ==
    [k \in 1..Len(toks) |->
        [kind |-> toks[k].token_type, lexeme |-> Slice(b, toks[k].first, toks[k].last)]]

\* the buffer b with w put in at position p
Inserted(b, p, w) == SubSeq(b, 1, p) \o w \o SubSeq(b, p + 1, Len(b))

\* the runs of whitespace put in: each whitespace character alone, and runs
\* of up to MaxInsert characters that go through blank, newline and tab
InsertChars == {" ", "\n", "\t"}
InsertRun(n) == [k \in 1..n |-> <<" ", "\n", "\t">>[((k - 1) % 3) + 1]]
Inserts == {<<c>> : c \in InsertChars} \cup {InsertRun(n) : n \in 1..MaxInsert}

\* the start and the end of buf, and the two ends of every token
TokenBoundaries ==
    {0, Len(buf)} \cup {tokens[k].first : k \in 1..Len(tokens)}
                  \cup {tokens[k].last : k \in 1..Len(tokens)}

NoErrorToken == \A k \in 1..Len(tokens) : tokens[k].token_type # "Error"

\* C23: when lex has returned for buf without an Error token, lex of buf with
\* whitespace put in at the start, at the end or at either end of a token
\* returns tokens with the same kinds and lexemes in the same order.
C23_WhitespaceInsensitive ==
    (lex_pc = "done" /\ NoErrorToken) =>
       \A p \in TokenBoundaries : \A w \in Inserts :
          Pairs(Inserted(buf, p, w), lex(Inserted(buf, p, w))) = Pairs(buf, tokens)

\* lex has returned two tokens that touch, a Num and an Id, and whitespace put
\* between them moves the second
C23_Witness ==
    /\ lex_pc = "done" /\ NoErrorToken /\ Len(tokens) = 2
    /\ tokens[1].token_type = "Num" /\ tokens[2].token_type = "Id"
    /\ tokens[1].last = tokens[2].first
    /\ lex(Inserted(buf, tokens[1].last, <<"\n">>))[2].first = tokens[2].first + 1

\* lex has returned tokens around a comment
C23_AcrossComment ==
    /\ lex_pc = "done" /\ NoErrorToken /\ Len(tokens) = 2
    /\ tokens[1].last + 4 <= tokens[2].first
    /\ At(buf, tokens[1].last) = "/"

-----------------------------------------------------------------------------
(* Properties of the cursor *)

\* the first n tokens of m_tokens, all of them when there are fewer
UpTo(n) == SubSeq(m_tokens, 1, IF n < Len(m_tokens) THEN n ELSE Len(m_tokens))

\* one pass of the loop of parse_program on the tokens t at the cursor p
DefinitionAt(t, p) ==
    IF check(t, p, "Struct") THEN parse_struct_def(t, p)
    ELSE IF check(t, p, "Extern") THEN parse_extern_def(t, p)
    ELSE IF check(t, p, "Fn") THEN parse_function_def(t, p)
    ELSE error(p, UnexpectedToken(peek(t, p).node.index))

\* a step of parse moves the cursor forward and not past the end, to where the
\* definition at the cursor takes it; the step is the same when the tokens
\* after the one at the new cursor are taken away, and for a definition that
\* was parsed also when the token at the new cursor is
SinglePass ==
    /\ m_current_pos' >= m_current_pos
    /\ m_current_pos' <= Len(m_tokens)
    /\ (parse_pc = "loop" /\ ~is_at_end(m_tokens, m_current_pos)) =>
          LET r == DefinitionAt(m_tokens, m_current_pos)
          IN  /\ m_current_pos' = r.pos
              /\ parse_error' = r.err
              /\ DefinitionAt(UpTo(r.pos + 1), m_current_pos) = r
              /\ ~Failed(r) =>
                    /\ r.pos > m_current_pos
                    /\ DefinitionAt(UpTo(r.pos), m_current_pos) = r

\* C24: the cursor m_current_pos never decreases and never exceeds the number
\* of tokens; a parsed definition moves it past the tokens of the definition,
\* parse returns with it at the end, and what parse does up to a cursor depends
\* on no token after the one at that cursor.
C24_SinglePass ==
    /\ [](m_current_pos <= Len(m_tokens))
    /\ [](parse_pc = "done" => m_current_pos = Len(m_tokens))
    /\ [][SinglePass]_vars

\* parse has failed at an Error token after `?' with a `:' and more tokens
\* after it
C24_Witness ==
    /\ parse_pc = "error" /\ m_current_pos > BodyStart
    /\ m_current_pos + 2 < Len(m_tokens)
    /\ m_tokens[m_current_pos].type = "QuestionMark"
    /\ m_tokens[m_current_pos + 1].type = "Error"
    /\ m_tokens[m_current_pos + 2].type = "Colon"

\* parse has passed the first of two definitions
C24_SecondDefinition ==
    /\ parse_pc = "loop" /\ m_current_pos > 0 /\ m_current_pos < Len(m_tokens)
    /\ Len(program.structs) = 1

-----------------------------------------------------------------------------
(* Termination of lex *)

\* every token pushed holds at least one byte of buf
TokensNotEmpty ==
    \A k \in 1..Len(tokens) :
       /\ tokens[k].first < tokens[k].last
       /\ tokens[k].last <= Len(buf)

\* wherever a comment opens in buf, the skipper's branch for it ends after the
\* opener, and the skipper as a whole never moves back
SkipperAdvances ==
    /\ \A it \in 0..(Len(buf) - 2) :
          /\ (At(buf, it) = "/" /\ At(buf, it + 1) = "/") =>
                skip_line_comment(buf, it).next >= it + 2
          /\ (At(buf, it) = "/" /\ At(buf, it + 1) = "*") =>
                /\ skip_block_comment(buf, it).next >= it + 2
                /\ skip_block_comment(buf, it).err = <<>> =>
                      skip_block_comment(buf, it).next >= it + 4
    /\ \A it \in 0..Len(buf) :
          /\ skip_whitespace_and_comments(buf, it).next >= it
          /\ skip_whitespace_and_comments(buf, it).next <= Len(buf)

\* an iteration of the loop of lex moves curr forward, towards the end of buf
IterationAdvances ==
    lex_pc = "loop" =>
       \/ curr' > curr /\ curr' <= Len(buf)
       \/ curr' = curr /\ curr = Len(buf) /\ lex_pc' = "done"

\* C25: lex returns for every buffer: every token it pushes has last > first
\* (munch_token is called on a non-empty range and an Error lexeme holds at
\* least one byte), every iteration of its loop moves curr forward, and the
\* skipper moves forward over every comment.
C25_LexTerminates ==
    /\ [](TokensNotEmpty /\ SkipperAdvances)
    /\ [][IterationAdvances]_vars
    /\ <>(lex_pc = "done")

\* lex has returned after an Error token of one byte that is followed by a
\* two-character operator
C25_Witness ==
    /\ lex_pc = "done" /\ Len(tokens) = 2 /\ curr = Len(buf)
    /\ tokens[1].token_type = "Error" /\ tokens[1].last = tokens[1].first + 1
    /\ tokens[2].first = tokens[1].last /\ tokens[2].last = tokens[2].first + 2

\* lex has returned after skipping two comments in a row
C25_TwoComments ==
    /\ lex_pc = "done" /\ tokens = <<>> /\ Len(buf) >= 8
    /\ At(buf, 0) = "/" /\ At(buf, 4) = "/"

-----------------------------------------------------------------------------
(* Properties of block comments *)

IsClose(k) == buf[k] = "*" /\ k < Len(buf) /\ buf[k + 1] = "/"

\* the offset after the first */ whose star is at or after the second byte
\* after the opener at q; more than Len(buf) when there is none
CloseAfter(q) == FirstAt(q + 3, Len(buf) - 1, IsClose) + 1

\* a block comment opened at q, reached from p over skipped text, is closed
ClosedBlockAt(p, q) ==
    /\ q + 2 <= Len(buf)
    /\ IsSkipped(Slice(buf, p, q))
    /\ Slice(buf, q, q + 2) = <<"/", "*">>
    /\ CloseAfter(q) <= Len(buf)

\* an iteration of lex that comes to a closed block comment does what it does
\* from the offset after the first */ of the comment
EndsAtFirstClose ==
    lex_pc = "loop" =>
       \A q \in curr..Len(buf) :
          ClosedBlockAt(curr, q) =>
             LET r == lex_iteration(buf, CloseAfter(q), tokens)
             IN  curr' = r.curr /\ tokens' = r.tokens /\ lex_pc' = r.pc

\* what lex returns for /*/, for /**/ and for comments written inside comments
CommentCases ==
    lex_pc = "done" =>
       /\ buf = <<"/","*","/">> => tokens = <<Token("Error", 0, 3)>>
       /\ buf = <<"/","*","*","/">> => tokens = <<>>
       /\ buf = <<"/","*"," ","a"," ","/","*"," ","b"," ","*","/"," ","c"," ","*","/">> =>
             Pairs(buf, tokens) = << [kind |-> "Id", lexeme |-> <<"c">>],
                                     [kind |-> "Star", lexeme |-> <<"*">>],
                                     [kind |-> "Slash", lexeme |-> <<"/">>] >>
       /\ buf = <<"/","*","/","*","a","*","/","c","*","/">> =>
             Pairs(buf, tokens) = << [kind |-> "Id", lexeme |-> <<"c">>],
                                     [kind |-> "Star", lexeme |-> <<"*">>],
                                     [kind |-> "Slash", lexeme |-> <<"/">>] >>

\* C26: block comments do not nest: a comment opened by /* ends after the
\* first */ whose star is at or after the second byte after the opener; /*/
\* is unterminated, /**/ is a whole comment, and in `/* a /* b */ c */' the
\* comment ends after the first */ and ` c */' is lexed as Id(c) Star Slash.
C26_BlockCommentsDoNotNest == []CommentCases /\ [][EndsAtFirstClose]_vars

\* lex has returned Id(c) Star Slash for `/* a /* b */ c */'
C26_Witness ==
    /\ lex_pc = "done" /\ Len(buf) = 17 /\ Len(tokens) = 3
    /\ Slice(buf, 0, 2) = <<"/", "*">> /\ Slice(buf, 5, 7) = <<"/", "*">>
    /\ tokens[1] = Token("Id", 13, 14)
    /\ tokens[2] = Token("Star", 15, 16) /\ tokens[3] = Token("Slash", 16, 17)

\* lex has returned one Error token for /*/
C26_SlashStarSlash ==
    /\ lex_pc = "done" /\ buf = <<"/","*","/">> /\ tokens = <<Token("Error", 0, 3)>>

-----------------------------------------------------------------------------
(* Properties of the token line *)

\* the name token_type_to_string prints for the kind of a token: all of what
\* it prints, or what it prints before the parenthesis
PrintedKind(token) ==
    LET s == token_type_to_string(buf, token)
    IN  IF token.token_type \in {"Num", "Id", "Error"} THEN SubSeq(s, 1, find(s, "(")) ELSE s

\* the token tokenize_input has to build for tokens[k]
ReadBack(k) ==
    PToken(PrintedKind(tokens[k]),
           IF tokens[k].token_type \in {"Num", "Id"} THEN Lexeme(tokens[k]) ELSE <<>>,
           k - 1)

\* C27: for tokens of lex without an Error token, the line main of lex prints
\* (kind names, Num(digits), Id(name), one blank between tokens, a newline at
\* the end), read back by tokenize_input, gives as many tokens, the k-th
\* (from 0) with the kind name as type, the lexeme as value for Num and Id and
\* the empty value otherwise, and k as index.
C27_RoundTrip ==
    (tok_pc = "done" /\ NoErrorToken) =>
       /\ Len(in_tokens) = Len(tokens)
       /\ \A k \in 1..Len(tokens) : in_tokens[k] = ReadBack(k)
       /\ \A k \in 1..Len(line) : line[k] # "\n"

\* tokenize_input has returned Id(x) Arrow Num(42) with indices 0, 1, 2 for the
\* line printed for `x -> 42'
C27_Witness ==
    /\ tok_pc = "done" /\ Len(tokens) = 3 /\ NoErrorToken
    /\ in_tokens = << PToken(<<"I","d">>, <<"x">>, 0),
                      PToken(<<"A","r","r","o","w">>, <<>>, 1),
                      PToken(<<"N","u","m">>, <<"4","2">>, 2) >>

\* tokenize_input has returned tokens that are not the ones printed, for a
\* line with an Error token whose lexeme holds blanks
C27_ErrorBreaksLine ==
    /\ tok_pc = "done" /\ ~NoErrorToken
    /\ Len(in_tokens) # Len(tokens)

-----------------------------------------------------------------------------
(* Properties of parse_program *)

DefinitionCount ==
    Len(program.structs) + Len(program.externs) + Len(program.functions)

\* the type of the token at the cursor, "" at the end
TypeAtCursor ==
    IF is_at_end(m_tokens, m_current_pos) THEN "" ELSE m_tokens[m_current_pos + 1].type

\* a Program is returned with the cursor at the end and a definition in it; the
\* empty stream is an error
ProgramReturned ==
    /\ parse_pc = "done" => (m_current_pos = Len(m_tokens) /\ DefinitionCount >= 1)
    /\ (ParseEnded /\ Len(m_tokens) = 0) =>
          (parse_pc = "error" /\ parse_error = error(0, EndOfStream).err)

\* a pass of the loop: a token that opens no definition is an error at its
\* index; a parsed definition goes to the end of the list of its kind and the
\* other lists stay
TopLevelStep ==
    (parse_pc = "loop" /\ ~is_at_end(m_tokens, m_current_pos)) =>
       LET r == DefinitionAt(m_tokens, m_current_pos)
           type == TypeAtCursor
       IN  /\ type \notin {"Struct", "Extern", "Fn"} =>
                /\ parse_pc' = "error" /\ m_current_pos' = m_current_pos
                /\ parse_error' =
                      error(m_current_pos,
                            UnexpectedToken(m_tokens[m_current_pos + 1].index)).err
                /\ program' = program
           /\ (type = "Struct" /\ ~Failed(r)) =>
                program' = Program(Append(program.structs, r.node), program.externs,
                                   program.functions)
           /\ (type = "Extern" /\ ~Failed(r)) =>
                program' = Program(program.structs, Append(program.externs, r.node),
                                   program.functions)
           /\ (type = "Fn" /\ ~Failed(r)) =>
                program' = Program(program.structs, program.externs,
                                   Append(program.functions, r.node))

\* C28: parse returns a Program only with the cursor at the end of the stream
\* and at least one definition parsed; the empty stream fails with "parse
\* error: unexpected end of token stream"; a token after a definition that is
\* not Struct, Extern or Fn fails with "parse error: unexpected token at token
\* i", i its index; struct, extern and function definitions are appended to
\* their lists in source order.
C28_ParseProgram == []ProgramReturned /\ [][TopLevelStep]_vars

\* parse has returned two structs in the order of the stream, the first one
\* without fields and the second one with two
C28_Witness ==
    /\ parse_pc = "done" /\ Len(program.structs) = 2
    /\ Len(program.structs[1].fields) = 0 /\ Len(program.structs[2].fields) = 2
    /\ m_tokens[4].type = "CloseBrace"

\* parse has failed at an Id that follows a function
C28_TokenAfterDefinition ==
    /\ parse_pc = "error" /\ Len(program.functions) = 1
    /\ m_current_pos + 1 = Len(m_tokens) /\ m_tokens[m_current_pos + 1].type = "Id"
    /\ parse_error = error(m_current_pos, UnexpectedToken(m_tokens[m_current_pos + 1].index)).err

\* parse has failed on the empty stream
C28_EmptyStream ==
    /\ parse_pc = "error" /\ m_tokens = <<>>

-----------------------------------------------------------------------------
(* Properties of the order of the checks in parse_stmt *)

\* the statement at the cursor p starts with an expression and `=', and what
\* comes then, a right-hand side and `;', is not there: the exception of the
\* right-hand side or of consume(Semicolon), <<>> when the statement is not
\* like that
AssignSyntaxError(p) ==
    LET left_exp == parse_exp(m_tokens, p)
    IN  IF Failed(left_exp) \/ ~check(m_tokens, left_exp.pos, "Gets") THEN <<>>
        ELSE LET right_exp == parse_exp(m_tokens, left_exp.pos + 1)
             IN  IF Failed(right_exp) THEN <<right_exp>>
                 ELSE IF Failed(consume(m_tokens, right_exp.pos, "Semicolon"))
                 THEN <<consume(m_tokens, right_exp.pos, "Semicolon")>>
                 ELSE <<>>

\* the same for an expression that is followed by neither `=' nor `;'
StandaloneSyntaxError(p) ==
    LET left_exp == parse_exp(m_tokens, p)
    IN  IF Failed(left_exp) \/ check(m_tokens, left_exp.pos, "Gets") THEN <<>>
        ELSE IF Failed(consume(m_tokens, left_exp.pos, "Semicolon"))
        THEN <<consume(m_tokens, left_exp.pos, "Semicolon")>>
        ELSE <<>>

\* an expression statement starts at the cursor p
ExpressionStatement(p) ==
    ~check_any(m_tokens, p, {"If", "While", "Return", "Break", "Continue"})

\* C29: in an expression statement the place check runs after the right-hand
\* side and the `;' are consumed and the call check after the `;' is: "must be
\* a place" and "must be function calls" are raised with the cursor just after
\* a `;', and a statement that has a syntax error after its left-hand side or
\* its expression fails with the error of that later position, whether or not
\* the left-hand side is a place or the expression a call.
C29_ChecksAfterSemicolon ==
    /\ (parse_pc = "error"
          /\ parse_error[1].msg \in {NotAPlace(0).msg, NotACall(0).msg}) =>
          (m_current_pos > 0 /\ m_tokens[m_current_pos].type = "Semicolon")
    /\ \A p \in StatementStarts :
          (ExpressionStatement(p) /\ ~BeforeFunction) =>
             /\ AssignSyntaxError(p) # <<>> =>
                   /\ parse_pc = "error"
                   /\ parse_error = AssignSyntaxError(p)[1].err
                   /\ m_current_pos = AssignSyntaxError(p)[1].pos
             /\ StandaloneSyntaxError(p) # <<>> =>
                   /\ parse_pc = "error"
                   /\ parse_error = StandaloneSyntaxError(p)[1].err
                   /\ m_current_pos = StandaloneSyntaxError(p)[1].pos

\* parse has failed with "unexpected token" at the `}' that follows `1 = x'
C29_Witness ==
    /\ parse_pc = "error" /\ HasPrologue
    /\ \E p \in StatementStarts :
          /\ AssignSyntaxError(p) # <<>>
          /\ parse_exp(m_tokens, p).node.kind = "Num"
          /\ m_current_pos = p + 3 /\ m_current_pos < Len(m_tokens)
          /\ m_tokens[m_current_pos + 1].type = "CloseBrace"
          /\ parse_error =
                error(m_current_pos, UnexpectedToken(m_tokens[m_current_pos + 1].index)).err

\* parse has failed with "unexpected end of token stream" after `1 = x'
C29_EndAfterAssignment ==
    /\ parse_pc = "error" /\ HasPrologue
    /\ \E p \in StatementStarts :
          /\ AssignSyntaxError(p) # <<>>
          /\ parse_exp(m_tokens, p).node.kind = "Num"
          /\ m_current_pos = Len(m_tokens)
          /\ parse_error = error(m_current_pos, EndOfStream).err

\* parse has failed with "unexpected token" after an expression that is no call
C29_StandaloneWithoutSemicolon ==
    /\ parse_pc = "error" /\ HasPrologue
    /\ \E p \in StatementStarts :
          /\ StandaloneSyntaxError(p) # <<>>
          /\ parse_exp(m_tokens, p).node.kind # "CallExp"
          /\ parse_error[1].msg = UnexpectedToken(0).msg

-----------------------------------------------------------------------------
(* Properties of selections chained through the false arm *)

\* the false arms the while loop of parse_exp parses in its iterations, in
\* order, when it starts with `left'; `from' is the cursor where the arm starts
RECURSIVE FalseArms(_, _)
FalseArms(t, left) ==
    IF Failed(left) \/ ~check(t, left.pos, "QuestionMark") THEN <<>>
    ELSE LET true_exp == parse_exp(t, left.pos + 1)
         IN  IF Failed(true_exp) \/ ~check(t, true_exp.pos, "Colon") THEN <<>>
             ELSE LET false_exp == parse_exp1(t, true_exp.pos + 1)
                  IN  IF Failed(false_exp) THEN <<>>
                      ELSE <<[from |-> true_exp.pos + 1, arm |-> false_exp]>>
                           \o FalseArms(t, Ok(false_exp.pos,
                                   Select(left.node, true_exp.node, false_exp.node)))

\* node is k selections nested through the guard, the false arm of the
\* outermost the k-th of arms, and the innermost guard is `first'
RECURSIVE NestsLeft(_, _, _, _)
NestsLeft(node, arms, k, first) ==
    IF k = 0 THEN node = first
    ELSE /\ node.kind = "Select"
         /\ node.ff = arms[k].arm.node
         /\ NestsLeft(node.guard, arms, k - 1, first)

\* a false arm that is a Select is a parenthesised expression, `(' to `)'
ArmInParentheses(a) ==
    a.arm.node.kind = "Select" =>
       /\ m_tokens[a.from + 1].type = "OpenParen"
       /\ m_tokens[a.arm.pos].type = "CloseParen"
       /\ parse_exp(m_tokens, a.from + 1).pos = a.arm.pos - 1

\* C30: a `?' after a completed false arm takes the whole selection parsed so
\* far as its guard: `a ? b : c ? d : e' parses to
\* Select(Select(a, b, c), d, e), the selections of a chain nest to the left,
\* one for each false arm in the order of the arms, and a false arm is a
\* Select only when it is a parenthesised expression.
C30_ChainsNestLeft ==
    ExpCalled =>
       /\ TypesOf(m_tokens) = <<"Id", "QuestionMark", "Id", "Colon", "Id", "QuestionMark",
                                "Id", "Colon", "Id">>
             => /\ parse_pc = "done"
                /\ m_current_pos = 9
                /\ exp_ret = Select(Select(IdAt(1), IdAt(3), IdAt(5)), IdAt(7), IdAt(9))
       /\ parse_pc = "done" =>
             LET arms == FalseArms(m_tokens, parse_exp1(m_tokens, 0))
             IN  NestsLeft(exp_ret, arms, Len(arms), parse_exp1(m_tokens, 0).node)
       /\ \A p \in 0..Len(m_tokens) :
             LET arms == FalseArms(m_tokens, parse_exp1(m_tokens, p))
             IN  \A k \in 1..Len(arms) : ArmInParentheses(arms[k])

\* parse_exp has returned from `a ? b : c ? d : e ? a : b': three selections,
\* each the guard of the next
C30_Witness ==
    /\ parse_pc = "done"
    /\ TypesOf(m_tokens) = <<"Id", "QuestionMark", "Id", "Colon", "Id", "QuestionMark",
                             "Id", "Colon", "Id", "QuestionMark", "Id", "Colon", "Id">>
    /\ exp_ret = Select(Select(Select(IdAt(1), IdAt(3), IdAt(5)), IdAt(7), IdAt(9)),
                        IdAt(11), IdAt(13))

\* parse_exp has returned from `a ? b : (c ? d : e)': the false arm is a Select
C30_ParenthesisedArm ==
    /\ parse_pc = "done"
    /\ Len(m_tokens) = 11
    /\ exp_ret = Select(IdAt(1), IdAt(3), Select(IdAt(6), IdAt(8), IdAt(10)))

\* parse_exp has returned from `a ? b : c + d ? e : a * b': the false arms are
\* binary operations and the first selection is the guard of the second
C30_BinaryArms ==
    /\ parse_pc = "done"
    /\ Len(m_tokens) = 13
    /\ exp_ret.kind = "Select" /\ exp_ret.guard.kind = "Select"
    /\ exp_ret.guard.ff.kind = "BinOp" /\ exp_ret.ff.kind = "BinOp"

=============================================================================
